---- MODULE Spec2Model ----
(***************************************************************************)
(* Model of the MCP session manager of python-mcp:                         *)
(*   - session_manager/app.py        the Flask composition root            *)
(*   - session_manager/session.py    Session / SessionManager              *)
(*   - session_manager/dispatcher.py RequestDispatcher                     *)
(*   - session_manager/notifications.py NotificationsHandler               *)
(*   - common/protocol.py            MCPProtocol                           *)
(* Each part has its own specification (SpecApp, SpecReg, SpecDispatch,    *)
(* SpecNotif); the parts share the clock and the pure helpers.             *)
(***************************************************************************)
EXTENDS Integers, Sequences, FiniteSets, TLC

(* ------------------------------ bounds --------------------------------- *)
MaxSessions == 2
MaxHandlers == 2
MaxReqIds == 1
\* the clock runs MaxPeriods idle thresholds and MaxSecs seconds past each
MaxPeriods == 1
MaxSecs == 1
\* the threads calling the NotificationsHandler, the clients that register with
\* it, and the calls of send_notification and broadcast_notification in all
MaxThreads == 2
MaxClients == 3
MaxNotes == 1
\* the pings an event stream yields before it ends
MaxPings == 1
\* the threads polling get_client_notifications, and the notifications sent
\* while they poll
MaxPollers == 1
MaxQueued == 2
MaxRoutes == 2
MaxStreams == 2
MaxListeners == 2
MaxLines == 2
MaxRouteIds == 2

(* ------------------------- program constants --------------------------- *)
\* app.py:267 and session.py:53: the idle threshold in seconds
IdleThreshold == 1800

ClientIds == {"c1", "c2"}
\* a missing / empty clientId: falsy in Python
NoClientId == ""

SessionKeys == 1..MaxSessions
Handlers == 1..MaxHandlers
RequestIds == 1..MaxReqIds

VARIABLES
    now,          \* datetime.utcnow(), in seconds
    \* ---- session_manager/app.py
    sessions,     \* the `sessions` dict: session id -> reference of the session dict
    heap,         \* the session dicts themselves, by reference
    nextSid,      \* uuid4(): the next fresh session id
    sse_clients,  \* the `sse_clients` dict (its keys)
    server_urls,  \* the `server_urls` configuration read at start-up
    createRes,    \* response of the last POST /sessions
    \* ---- one POST /sessions/<id>/requests per handler (handle_request)
    hpc,          \* where the handler is
    hsid,         \* its session_id argument
    hbody,        \* request.json / request_data
    hses,         \* its local `session` (a reference), 0 before it is bound
    hrid,         \* its local request_id, 0 before it is bound
    hout,         \* what dispatcher.dispatch gave: "" / "response" / the exception's type
    hposts,       \* the backend ids it POSTed the request to
    hres,         \* its HTTP response
    hnotes,       \* its calls of send_notification
    \* ---- the cleanup_sessions thread
    spc, snow, slist, scur, sses,
    expiredLog,   \* its calls of send_notification
    \* ---- DELETE /sessions/<id> (close_session)
    cpc, csid, cres,
    closedBy,     \* history: which code path removed a session id from `sessions`
    dup,          \* history: the session dicts in which a request id was tracked
                  \* while an entry of that id was present
    \* ---- GET /events/<client_id> (events.stream)
    stpc, stclient,
    stout,        \* what the generator has yielded on each open stream, by event type
    \* ---- session_manager/session.py
    mgr,          \* SessionManager.sessions: session id -> Session
    regNext,      \* uuid4(): the next fresh session id
    regOp,        \* the last SessionManager / Session call: name, argument, result
    \* ---- session_manager/dispatcher.py: one RequestDispatcher and one call of dispatch
    disp_urls,    \* self.server_urls
    dpc,          \* where the call is: "idle", "post" (requests.post pending), "done"
    dreq,         \* its `request` argument
    dposts,       \* the POSTs it made: backend id, URL and the body sent
    dret,         \* what it returned ("response") or raised
    dans,         \* what requests.post gave: status code and body, or an exception
    dout,         \* the value returned, or what the message of the exception names
    health,       \* the call of check_health: position, items left, results, and
                  \* what each probe gave
    \* ---- session_manager/notifications.py: one NotificationsHandler
    clients,      \* self.clients: the registered client ids in insertion order; the
                  \* value under a client id is that client's response object
    notification_queues,  \* self.notification_queues: client id -> queue contents
    lock,         \* self.lock: 0 when free, else the thread that holds it
    chan,         \* the response object held for each client: "open", or "broken"
                  \* (a write to it raises)
    written,      \* what has been written to that response object
    nextNote,     \* uuid4() in create_notification: the next fresh notification id
    nseen,        \* how many of the clients have called register_client so far
    frames,       \* each thread's call: position, arguments, locals, result
    polls,        \* each polling thread's call of get_client_notifications
    \* ---- common/protocol.py
    vcall,        \* the last call of MCPProtocol.validate_message: arguments, result
    \* ---- session_manager/dispatcher.py: the routing step of dispatch
    rcalls,       \* the routing steps made: the request, and what lines 33-41 gave
    \* ---- client/sse_client.py: one SSEClient and the thread that calls it
    running,      \* self.running
    connected,    \* self.connected
    thread,       \* self.thread: the Thread object connect() made last, 0 for None
    lpc,          \* where each listener thread is in _listen
    lgot,         \* how many `message` events each listener thread has notified
    upc,          \* where the calling thread is in connect() / disconnect()
    ufrom         \* which of the two it called

tableVars == <<sessions, heap, nextSid, closedBy, dup>>
handlerVars == <<hpc, hsid, hbody, hses, hrid, hout, hposts, hres, hnotes>>
sweepVars == <<spc, snow, slist, scur, sses, expiredLog>>
closeVars == <<cpc, csid, cres>>
streamVars == <<stpc, stclient, stout, sse_clients>>

appVars == <<tableVars, handlerVars, sweepVars, closeVars, streamVars,
             server_urls, createRes>>

regVars == <<mgr, regNext, regOp>>

dispVars == <<disp_urls, dpc, dreq, dposts, dret, dans, dout, health>>

notifVars ==
    <<clients, notification_queues, lock, chan, written, nextNote, nseen, frames, polls>>

protoVars == <<vcall>>

routeVars == <<rcalls>>

clientVars == <<running, connected, thread, lpc, lgot, upc, ufrom>>

vars == <<now, appVars, regVars, dispVars, notifVars, protoVars, routeVars, clientVars>>

\* what the steps of one part leave alone
notAppVars == <<regVars, dispVars, notifVars, protoVars, routeVars, clientVars>>
notRegVars == <<appVars, dispVars, notifVars, protoVars, routeVars, clientVars>>
notDispVars == <<appVars, regVars, notifVars, protoVars, routeVars, clientVars>>
notNotifVars == <<appVars, regVars, dispVars, protoVars, routeVars, clientVars>>
notProtoVars == <<appVars, regVars, dispVars, notifVars, routeVars, clientVars>>
notRouteVars == <<appVars, regVars, notifVars, protoVars, clientVars>>

(* ------------------------------ helpers -------------------------------- *)
\* dict.get(k, default)
DictGet(d, k, default) == IF k \in DOMAIN d THEN d[k] ELSE default

\* del d[k]
DictDel(d, k) == [x \in DOMAIN d \ {k} |-> d[x]]

\* d[k] = v
DictSet(d, k, v) == [x \in DOMAIN d \cup {k} |-> IF x = k THEN v ELSE d[x]]

EmptyDict == [x \in {} |-> 0]

\* list(d.keys()): insertion order; session ids are issued in increasing order
RECURSIVE KeysList(_)
KeysList(S) ==
    IF S = {} THEN <<>>
    ELSE LET m == CHOOSE x \in S : \A y \in S : x <= y
         IN <<m>> \o KeysList(S \ {m})

\* datetime.isoformat(): the date and the time of day, printed separately
isoformat(t) == <<t \div 86400, t % 86400>>

\* datetime.fromisoformat()
fromisoformat(s) == s[1] * 86400 + s[2]

\* the clock advances by a second or by the idle threshold
TickSteps == {1, IdleThreshold}

Tick ==
    /\ \E d \in TickSteps :
        /\ (now + d) \div IdleThreshold <= MaxPeriods
        /\ (now + d) % IdleThreshold <= MaxSecs
        /\ now' = now + d

(* ------------------------- common/protocol.py -------------------------- *)
\* An envelope is a JSON value: `shape` says whether the body parsed to an object
\* (a dict), to another JSON value, or did not parse; `keys` are the keys the
\* dict has; `id` and `type` are the values under those keys when present.
Envelope(shape, keys, id, type) ==
    [shape |-> shape, keys |-> keys, id |-> id, type |-> type]

\* mutant of validate_message: a request needs no payload
validate_message_no_payload(message, message_type) ==
    IF message.shape # "object" THEN FALSE
    ELSE IF "id" \notin message.keys \/ "timestamp" \notin message.keys THEN FALSE
    ELSE IF message_type = "request"
         THEN "type" \in message.keys
    ELSE IF message_type = "response"
         THEN "requestId" \in message.keys /\ "status" \in message.keys
    ELSE IF message_type = "notification"
         THEN "type" \in message.keys /\ "data" \in message.keys
    ELSE FALSE

\* MCPProtocol.validate_message
validate_message(message, message_type) ==
    IF message.shape # "object" THEN FALSE
    ELSE IF "id" \notin message.keys \/ "timestamp" \notin message.keys THEN FALSE
    ELSE IF message_type = "request"
         THEN "type" \in message.keys /\ "payload" \in message.keys
    ELSE IF message_type = "response"
         THEN "requestId" \in message.keys /\ "status" \in message.keys
    ELSE IF message_type = "notification"
         THEN "type" \in message.keys /\ "data" \in message.keys
    ELSE FALSE

(* --------------------- session_manager/dispatcher.py ------------------- *)
REQUEST_TYPE_MAPPING ==
    [t \in {"resource-request", "sampling-task", "tool-execution", "database-query",
            "internet-search", "root-operation", "prompt-management", "llm-response",
            "default"} |->
        CASE t = "resource-request" -> "1"
          [] t = "sampling-task" -> "2"
          [] t = "tool-execution" -> "3"
          [] t = "database-query" -> "4"
          [] t = "internet-search" -> "5"
          [] t = "root-operation" -> "6"
          [] t = "prompt-management" -> "7"
          [] t = "llm-response" -> "1"
          [] t = "default" -> "1"]

\* app.py: the default server_urls (no SERVER_n_URL in the environment)
DefaultServerUrls ==
    [s \in {"1", "2", "3", "4", "5", "6", "7"} |->
        CASE s = "1" -> "http://localhost:5001"
          [] s = "2" -> "http://localhost:5002"
          [] s = "3" -> "http://localhost:5003"
          [] s = "4" -> "http://localhost:5004"
          [] s = "5" -> "http://localhost:5005"
          [] s = "6" -> "http://localhost:5006"
          [] s = "7" -> "http://localhost:5007"]

\* mutant of ResolveServerId: an undeclared type has no backend
ResolveServerId_no_fallback(request) ==
    LET request_type == IF "type" \in request.keys THEN request.type ELSE "default"
    IN DictGet(REQUEST_TYPE_MAPPING, request_type, "")

\* mutant of ResolveServerId: the request's id has a say
ResolveServerId_by_id(request) ==
    LET request_type == IF "type" \in request.keys THEN request.type ELSE "default"
    IN IF request.id = 2 THEN "2"
       ELSE DictGet(REQUEST_TYPE_MAPPING, request_type, REQUEST_TYPE_MAPPING["default"])

\* RequestDispatcher.dispatch, lines 37-38: the backend id of a request
ResolveServerId(request) ==
    LET request_type == IF "type" \in request.keys THEN request.type ELSE "default"
    IN DictGet(REQUEST_TYPE_MAPPING, request_type, REQUEST_TYPE_MAPPING["default"])

\* a `type` that is a JSON array or object: a list or a dict, which cannot be a
\* dict key; and a `type` that is JSON null: None, which can
UnhashableType == "[]"
NullType == "null"

\* mutant of DispatchStart: a backend without a URL is posted to all the same
DispatchStart_any_url(request, urls) ==
    IF ~validate_message(request, "request")
    THEN [raise |-> "ValueError: Invalid request format", server_id |-> "", url |-> ""]
    ELSE IF request.type = UnhashableType
    THEN [raise |-> "TypeError: unhashable type", server_id |-> "", url |-> ""]
    ELSE LET server_id == ResolveServerId(request)
             server_url == DictGet(urls, server_id, "")
         IN [raise |-> "", server_id |-> server_id, url |-> server_url]

\* RequestDispatcher.dispatch up to the POST: the exception it raises ("" for none),
\* and the backend the request goes to. A missing or empty URL is falsy.
DispatchStart(request, urls) ==
    IF ~validate_message(request, "request")
    THEN [raise |-> "ValueError: Invalid request format", server_id |-> "", url |-> ""]
    ELSE IF request.type = UnhashableType
    THEN [raise |-> "TypeError: unhashable type", server_id |-> "", url |-> ""]
    ELSE LET server_id == ResolveServerId(request)
             server_url == DictGet(urls, server_id, "")
         IN IF server_url = ""
            THEN [raise |-> "ValueError: No server URL configured",
                  server_id |-> server_id, url |-> ""]
            ELSE [raise |-> "", server_id |-> server_id, url |-> server_url]

\* what requests.post can give: a 200 answer, another status, a transport error or
\* a timeout (a RequestException)
BackendOutcomes == {"200", "non200", "RequestException"}

\* type(e).__name__ of what dispatch raises
ExcType(raise) ==
    IF raise = "TypeError: unhashable type" THEN "TypeError" ELSE "ValueError"

\* RequestDispatcher.dispatch after the POST: "response" for response.json(),
\* else the exception raised
DispatchFinish(outcome) ==
    CASE outcome = "200" -> "response"
      [] outcome = "non200" -> "ValueError: Server returned error"
      [] outcome = "RequestException" -> "ValueError: Failed to dispatch request"

(* ----------------------- session_manager/app.py ------------------------ *)
\* send_notification (the second definition, the one in force): True iff the
\* client holds an open event stream; nothing is written anywhere
send_notification(client_id) == client_id \in sse_clients

\* one call of send_notification, as the caller made it
Notification(client_id, type, request_id, session_id) ==
    [clientId |-> client_id, type |-> type, requestId |-> request_id,
     sessionId |-> session_id, delivered |-> send_notification(client_id)]

\* get_session: the response of GET /sessions/<session_id>
get_session(session_id) ==
    IF session_id \notin DOMAIN sessions
    THEN [status |-> 404, id |-> 0, clientId |-> "", activeRequestCount |-> 0]
    ELSE LET session == heap[sessions[session_id]]
         IN [status |-> 200, id |-> session.id, clientId |-> session.clientId,
             activeRequestCount |-> Cardinality(DOMAIN session.activeRequests)]

\* create_session: POST /sessions
create_session(client_id) ==
    /\ IF client_id = NoClientId
       THEN /\ createRes' = [status |-> 400, sessionId |-> 0]
            /\ UNCHANGED tableVars
       ELSE LET session_id == nextSid
            IN /\ heap' = DictSet(heap, session_id,
                              [id |-> session_id, clientId |-> client_id,
                               created |-> isoformat(now),
                               lastActivity |-> isoformat(now),
                               activeRequests |-> EmptyDict])
               /\ sessions' = DictSet(sessions, session_id, session_id)
               /\ nextSid' = nextSid + 1
               /\ createRes' = [status |-> 201, sessionId |-> session_id]
               /\ UNCHANGED <<closedBy, dup>>
    /\ UNCHANGED <<notAppVars, now, handlerVars, sweepVars, closeVars, streamVars, server_urls>>

\* close_session: DELETE /sessions/<session_id>, the membership test
close_session_check(session_id) ==
    /\ cpc = "idle"
    /\ IF session_id \notin DOMAIN sessions
       THEN cres' = 404 /\ cpc' = "idle" /\ csid' = 0
       ELSE cres' = 0 /\ cpc' = "del" /\ csid' = session_id
    /\ UNCHANGED <<notAppVars, now, tableVars, handlerVars, sweepVars, streamVars, server_urls,
                   createRes>>

\* close_session: `del sessions[session_id]`; a KeyError when the key has gone
\* since the test is an unhandled exception, which Flask answers with 500
close_session_del ==
    /\ cpc = "del"
    /\ cpc' = "idle"
    /\ IF csid \in DOMAIN sessions
       THEN /\ sessions' = DictDel(sessions, csid)
            /\ closedBy' = [closedBy EXCEPT ![csid] = "close"]
            /\ cres' = 204
       ELSE /\ cres' = 500
            /\ UNCHANGED <<sessions, closedBy>>
    /\ csid' = 0
    /\ UNCHANGED <<notAppVars, now, heap, nextSid, dup, handlerVars, sweepVars, streamVars,
                   server_urls, createRes>>

\* the request bodies a client posts: with or without an id; well-formed for the
\* tools backend, lacking `payload`, or well-formed for the database backend;
\* and two bodies that are no JSON object
NoId == 0
BodyKinds ==
    {<<{"timestamp", "type", "payload"}, "tool-execution">>,
     <<{"timestamp", "type"}, "tool-execution">>,
     <<{"timestamp", "type", "payload"}, "database-query">>}
RequestBodies ==
    {Envelope("object", k[1] \cup (IF id = NoId THEN {} ELSE {"id"}), id, k[2]) :
        id \in RequestIds \cup {NoId}, k \in BodyKinds}
    \cup {Envelope("array", {}, NoId, ""), Envelope("malformed", {}, NoId, "")}

\* str(uuid.uuid4()) in handle_request: an id no client sends and no other handler gets
Uuid4(h) == MaxReqIds + h

NoResponse == [status |-> 0, body |-> ""]

\* no body read yet
NoBody == Envelope("malformed", {}, NoId, "")

\* mutant of handle_request_check: no membership test
handle_request_check_any(h, session_id) ==
    /\ hpc[h] = "idle"
    /\ hsid' = [hsid EXCEPT ![h] = session_id]
    /\ hpc' = [hpc EXCEPT ![h] = "fetch"]
    /\ UNCHANGED <<notAppVars, now, tableVars, hbody, hses, hrid, hout, hposts, hres, hnotes,
                   sweepVars, closeVars, streamVars, server_urls, createRes>>

\* handle_request, lines 98-99: the membership test
handle_request_check(h, session_id) ==
    /\ hpc[h] = "idle"
    /\ hsid' = [hsid EXCEPT ![h] = session_id]
    /\ IF session_id \notin DOMAIN sessions
       THEN /\ hres' = [hres EXCEPT ![h] = [status |-> 404, body |-> "Session not found"]]
            /\ hpc' = [hpc EXCEPT ![h] = "return"]
       ELSE /\ hpc' = [hpc EXCEPT ![h] = "fetch"]
            /\ UNCHANGED hres
    /\ UNCHANGED <<notAppVars, now, tableVars, hbody, hses, hrid, hout, hposts, hnotes, sweepVars,
                   closeVars, streamVars, server_urls, createRes>>

\* line 102: session = sessions[session_id]; a KeyError is unhandled (500)
handle_request_fetch(h) ==
    /\ hpc[h] = "fetch"
    /\ IF hsid[h] \in DOMAIN sessions
       THEN /\ hses' = [hses EXCEPT ![h] = sessions[hsid[h]]]
            /\ hpc' = [hpc EXCEPT ![h] = "touch"]
            /\ UNCHANGED hres
       ELSE /\ hres' = [hres EXCEPT ![h] = [status |-> 500, body |-> "unhandled KeyError"]]
            /\ hpc' = [hpc EXCEPT ![h] = "return"]
            /\ UNCHANGED hses
    /\ UNCHANGED <<notAppVars, now, tableVars, hsid, hbody, hrid, hout, hposts, hnotes, sweepVars,
                   closeVars, streamVars, server_urls, createRes>>

\* lines 103-111: bump lastActivity, read the body, choose the request id.
\* request.json answers 400 for a body that does not parse; .get on a body that
\* is no dict is an unhandled AttributeError (500)
handle_request_touch(h, body) ==
    /\ hpc[h] = "touch"
    /\ heap' = [heap EXCEPT ![hses[h]].lastActivity = isoformat(now)]
    /\ IF body.shape = "malformed"
       THEN /\ hres' = [hres EXCEPT ![h] = [status |-> 400, body |-> "Bad Request"]]
            /\ hpc' = [hpc EXCEPT ![h] = "return"]
            /\ UNCHANGED <<hrid, hbody>>
       ELSE IF body.shape # "object"
       THEN /\ hres' = [hres EXCEPT ![h] =
                            [status |-> 500, body |-> "unhandled AttributeError"]]
            /\ hpc' = [hpc EXCEPT ![h] = "return"]
            /\ UNCHANGED <<hrid, hbody>>
       ELSE LET request_id == IF "id" \in body.keys THEN body.id ELSE Uuid4(h)
            IN /\ hrid' = [hrid EXCEPT ![h] = request_id]
               /\ hbody' = [hbody EXCEPT ![h] =
                               [body EXCEPT !.keys = @ \cup {"id"}, !.id = request_id]]
               /\ hpc' = [hpc EXCEPT ![h] = "track"]
               /\ UNCHANGED hres
    /\ UNCHANGED <<notAppVars, now, sessions, nextSid, closedBy, dup, hsid, hses, hout, hposts,
                   hnotes, sweepVars, closeVars, streamVars, server_urls, createRes>>

\* lines 114-124: session['activeRequests'][request_id] = {timestamp, request},
\* where `request` is the handler's own request_data object, named here by the
\* handler; then dispatcher.dispatch up to requests.post, which touches nothing
\* shared. Once the request is posted (or refused) its body is not read again.
handle_request_track(h) ==
    /\ hpc[h] = "track"
    /\ heap' = [heap EXCEPT ![hses[h]].activeRequests =
                    DictSet(@, hrid[h], [timestamp |-> isoformat(now), request |-> h])]
    /\ dup' = IF hrid[h] \in DOMAIN heap[hses[h]].activeRequests
              THEN dup \cup {hses[h]} ELSE dup
    /\ LET d == DispatchStart(hbody[h], server_urls)
       IN IF d.raise # ""
          THEN /\ hout' = [hout EXCEPT ![h] = ExcType(d.raise)]
               /\ hpc' = [hpc EXCEPT ![h] = "exc_check"]
               /\ UNCHANGED hposts
          ELSE /\ hposts' = [hposts EXCEPT ![h] = Append(@, d.server_id)]
               /\ hpc' = [hpc EXCEPT ![h] = "await"]
               /\ UNCHANGED hout
    /\ hbody' = [hbody EXCEPT ![h] = NoBody]
    /\ UNCHANGED <<notAppVars, now, sessions, nextSid, closedBy, hsid, hses, hrid, hres, hnotes,
                   sweepVars, closeVars, streamVars, server_urls, createRes>>

\* line 124, dispatcher.dispatch from the backend's answer on
handle_request_reply(h, outcome) ==
    /\ hpc[h] = "await"
    /\ hout' = [hout EXCEPT ![h] = IF outcome = "200" THEN DispatchFinish(outcome)
                                   ELSE ExcType(DispatchFinish(outcome))]
    /\ hpc' = [hpc EXCEPT ![h] = IF outcome = "200" THEN "ok_check" ELSE "exc_check"]
    /\ UNCHANGED <<notAppVars, now, tableVars, hsid, hbody, hses, hrid, hposts, hres, hnotes,
                   sweepVars, closeVars, streamVars, server_urls, createRes>>

\* lines 127 and 145: if request_id in session['activeRequests']
handle_request_in(h, at, del, notify) ==
    /\ hpc[h] = at
    /\ hpc' = [hpc EXCEPT ![h] =
                  IF hrid[h] \in DOMAIN heap[hses[h]].activeRequests THEN del ELSE notify]
    /\ UNCHANGED <<notAppVars, now, tableVars, hsid, hbody, hses, hrid, hout, hposts, hres, hnotes,
                   sweepVars, closeVars, streamVars, server_urls, createRes>>

handle_request_ok_check(h) == handle_request_in(h, "ok_check", "ok_del", "ok_notify")

handle_request_exc_check(h) == handle_request_in(h, "exc_check", "exc_del", "exc_notify")

\* mutant of handle_request_ok_del: the success path forgets the removal
handle_request_ok_del_forgets(h) ==
    /\ hpc[h] = "ok_del"
    /\ hpc' = [hpc EXCEPT ![h] = "ok_notify"]
    /\ UNCHANGED <<notAppVars, now, tableVars, hsid, hbody, hses, hrid, hout, hposts, hres, hnotes,
                   sweepVars, closeVars, streamVars, server_urls, createRes>>

\* mutant of handle_request_ok_del: the handler puts its session back into the
\* table
handle_request_ok_del_restores(h) ==
    /\ hpc[h] = "ok_del"
    /\ IF hrid[h] \in DOMAIN heap[hses[h]].activeRequests
       THEN /\ heap' = [heap EXCEPT ![hses[h]].activeRequests = DictDel(@, hrid[h])]
            /\ hpc' = [hpc EXCEPT ![h] = "ok_notify"]
       ELSE /\ hpc' = [hpc EXCEPT ![h] = "exc_check"]
            /\ UNCHANGED heap
    /\ sessions' = DictSet(sessions, hsid[h], hses[h])
    /\ UNCHANGED <<notAppVars, now, nextSid, closedBy, dup, hsid, hbody, hses, hrid, hout,
                   hposts, hres, hnotes, sweepVars, closeVars, streamVars, server_urls,
                   createRes>>

\* line 128: del session['activeRequests'][request_id]; a KeyError here is inside
\* the try block, so the except branch runs (hout keeps what dispatch returned)
handle_request_ok_del(h) ==
    /\ hpc[h] = "ok_del"
    /\ IF hrid[h] \in DOMAIN heap[hses[h]].activeRequests
       THEN /\ heap' = [heap EXCEPT ![hses[h]].activeRequests = DictDel(@, hrid[h])]
            /\ hpc' = [hpc EXCEPT ![h] = "ok_notify"]
       ELSE /\ hpc' = [hpc EXCEPT ![h] = "exc_check"]
            /\ UNCHANGED heap
    /\ UNCHANGED <<notAppVars, now, sessions, nextSid, closedBy, dup, hsid, hbody, hses, hrid, hout,
                   hposts, hres, hnotes, sweepVars, closeVars, streamVars, server_urls,
                   createRes>>

\* mutant of handle_request_exc_del: the except branch forgets the removal
handle_request_exc_del_forgets(h) ==
    /\ hpc[h] = "exc_del"
    /\ hpc' = [hpc EXCEPT ![h] = "exc_notify"]
    /\ UNCHANGED <<notAppVars, now, tableVars, hsid, hbody, hses, hrid, hout, hposts, hres, hnotes,
                   sweepVars, closeVars, streamVars, server_urls, createRes>>

\* line 146: the same statement in the except branch; a KeyError here is unhandled
handle_request_exc_del(h) ==
    /\ hpc[h] = "exc_del"
    /\ IF hrid[h] \in DOMAIN heap[hses[h]].activeRequests
       THEN /\ heap' = [heap EXCEPT ![hses[h]].activeRequests = DictDel(@, hrid[h])]
            /\ hpc' = [hpc EXCEPT ![h] = "exc_notify"]
            /\ UNCHANGED hres
       ELSE /\ hres' = [hres EXCEPT ![h] = [status |-> 500, body |-> "unhandled KeyError"]]
            /\ hpc' = [hpc EXCEPT ![h] = "return"]
            /\ UNCHANGED heap
    /\ UNCHANGED <<notAppVars, now, sessions, nextSid, closedBy, dup, hsid, hbody, hses, hrid, hout,
                   hposts, hnotes, sweepVars, closeVars, streamVars, server_urls,
                   createRes>>

\* mutant of handle_request_ok_notify: request-completed is sent as soon as the
\* request is at its backend
handle_request_ok_notify_early(h) ==
    /\ hpc[h] \in {"await", "ok_notify"}
    /\ hpc[h] = "await" => hnotes[h] = <<>>
    /\ hnotes' = [hnotes EXCEPT ![h] =
                     Append(@, Notification(heap[hses[h]].clientId, "request-completed",
                                            hrid[h], hsid[h]))]
    /\ IF hpc[h] = "await"
       THEN UNCHANGED <<hres, hpc>>
       ELSE /\ hres' = [hres EXCEPT ![h] = [status |-> 200, body |-> hout[h]]]
            /\ hpc' = [hpc EXCEPT ![h] = "return"]
    /\ UNCHANGED <<notAppVars, now, tableVars, hsid, hbody, hses, hrid, hout, hposts, sweepVars,
                   closeVars, streamVars, server_urls, createRes>>

\* lines 131-139: notify request-completed and build the 200 response
handle_request_ok_notify(h) ==
    /\ hpc[h] = "ok_notify"
    /\ hnotes' = [hnotes EXCEPT ![h] =
                     Append(@, Notification(heap[hses[h]].clientId, "request-completed",
                                            hrid[h], hsid[h]))]
    /\ hres' = [hres EXCEPT ![h] = [status |-> 200, body |-> hout[h]]]
    /\ hpc' = [hpc EXCEPT ![h] = "return"]
    /\ UNCHANGED <<notAppVars, now, tableVars, hsid, hbody, hses, hrid, hout, hposts, sweepVars,
                   closeVars, streamVars, server_urls, createRes>>

\* lines 149-161: notify request-error and build the 500 {error, message} response
handle_request_exc_notify(h) ==
    /\ hpc[h] = "exc_notify"
    /\ hnotes' = [hnotes EXCEPT ![h] =
                     Append(@, Notification(heap[hses[h]].clientId, "request-error",
                                            hrid[h], hsid[h]))]
    /\ hres' = [hres EXCEPT ![h] = [status |-> 500, body |-> "Failed to process request"]]
    /\ hpc' = [hpc EXCEPT ![h] = "return"]
    /\ UNCHANGED <<notAppVars, now, tableVars, hsid, hbody, hses, hrid, hout, hposts, sweepVars,
                   closeVars, streamVars, server_urls, createRes>>

\* the handler's frame ends: Flask sends hres, the locals are gone and the worker
\* thread is free for the next request
handle_request_return(h) ==
    /\ hpc[h] = "return"
    /\ hpc' = [hpc EXCEPT ![h] = "idle"]
    /\ hsid' = [hsid EXCEPT ![h] = 0]
    /\ hses' = [hses EXCEPT ![h] = 0]
    /\ hrid' = [hrid EXCEPT ![h] = 0]
    /\ hout' = [hout EXCEPT ![h] = ""]
    /\ hposts' = [hposts EXCEPT ![h] = <<>>]
    /\ hres' = [hres EXCEPT ![h] = NoResponse]
    /\ hnotes' = [hnotes EXCEPT ![h] = <<>>]
    /\ UNCHANGED <<notAppVars, now, tableVars, hbody, sweepVars, closeVars, streamVars,
                   server_urls, createRes>>

\* cleanup_sessions, lines 260-262: the sleep ends; now = utcnow() and the loop
\* runs over list(sessions.keys())
cleanup_sessions_wake ==
    /\ spc = "sleep"
    /\ snow' = now
    /\ slist' = KeysList(DOMAIN sessions)
    /\ spc' = "iter"
    /\ UNCHANGED <<notAppVars, now, tableVars, handlerVars, scur, sses, expiredLog, closeVars,
                   streamVars, server_urls, createRes>>

\* mutant of cleanup_sessions_iter: a session with a request in flight is spared
cleanup_sessions_iter_spares_busy ==
    /\ spc = "iter"
    /\ IF slist = <<>>
       THEN /\ spc' = "sleep"
            /\ snow' = 0 /\ scur' = 0 /\ sses' = 0
            /\ UNCHANGED slist
       ELSE LET session_id == Head(slist)
            IN /\ slist' = Tail(slist)
               /\ scur' = session_id
               /\ snow' = snow
               /\ IF session_id \notin DOMAIN sessions
                  THEN spc' = "dead" /\ UNCHANGED sses
                  ELSE LET session == sessions[session_id]
                           last_activity == fromisoformat(heap[session].lastActivity)
                       IN /\ sses' = session
                          /\ spc' = IF /\ snow - last_activity > IdleThreshold
                                       /\ DOMAIN heap[session].activeRequests = {}
                                    THEN "del" ELSE "iter"
    /\ UNCHANGED <<notAppVars, now, tableVars, handlerVars, expiredLog, closeVars,
                   streamVars, server_urls, createRes>>

\* lines 262-267: the next session id of the list; session = sessions[session_id]
\* (a KeyError ends the thread) and the idle test on its lastActivity
cleanup_sessions_iter ==
    /\ spc = "iter"
    /\ IF slist = <<>>
       THEN /\ spc' = "sleep"
            /\ snow' = 0 /\ scur' = 0 /\ sses' = 0
            /\ UNCHANGED slist
       ELSE LET session_id == Head(slist)
            IN /\ slist' = Tail(slist)
               /\ scur' = session_id
               /\ snow' = snow
               /\ IF session_id \notin DOMAIN sessions
                  THEN spc' = "dead" /\ UNCHANGED sses
                  ELSE LET session == sessions[session_id]
                           last_activity == fromisoformat(heap[session].lastActivity)
                       IN /\ sses' = session
                          /\ spc' = IF snow - last_activity > IdleThreshold
                                    THEN "del" ELSE "iter"
    /\ UNCHANGED <<notAppVars, now, tableVars, handlerVars, expiredLog, closeVars,
                   streamVars, server_urls, createRes>>

\* mutant of cleanup_sessions_del: the session is removed without the notification
cleanup_sessions_del_silent ==
    /\ spc = "del"
    /\ IF scur \in DOMAIN sessions
       THEN /\ sessions' = DictDel(sessions, scur)
            /\ closedBy' = [closedBy EXCEPT ![scur] = "sweep"]
            /\ spc' = "iter"
       ELSE /\ spc' = "dead"
            /\ UNCHANGED <<sessions, closedBy>>
    /\ UNCHANGED <<notAppVars, now, heap, nextSid, dup, handlerVars, snow, slist, scur,
                   sses, expiredLog, closeVars, streamVars, server_urls, createRes>>

\* line 269: del sessions[session_id]; a KeyError ends the thread
cleanup_sessions_del ==
    /\ spc = "del"
    /\ IF scur \in DOMAIN sessions
       THEN /\ sessions' = DictDel(sessions, scur)
            /\ closedBy' = [closedBy EXCEPT ![scur] = "sweep"]
            /\ spc' = "notify"
       ELSE /\ spc' = "dead"
            /\ UNCHANGED <<sessions, closedBy>>
    /\ UNCHANGED <<notAppVars, now, heap, nextSid, dup, handlerVars, snow, slist, scur, sses,
                   expiredLog, closeVars, streamVars, server_urls, createRes>>

\* lines 272-276: send_notification(session['clientId'], session-expired)
cleanup_sessions_notify ==
    /\ spc = "notify"
    /\ expiredLog' = Append(expiredLog,
                            Notification(heap[sses].clientId, "session-expired", 0, scur))
    /\ spc' = "iter"
    /\ UNCHANGED <<notAppVars, now, tableVars, handlerVars, snow, slist, scur, sses, closeVars,
                   streamVars, server_urls, createRes>>

\* events.stream, lines 178-183: the generator starts and yields `connected`
stream_open(st, client_id) ==
    /\ stpc[st] = "idle"
    /\ stclient' = [stclient EXCEPT ![st] = client_id]
    /\ stout' = [stout EXCEPT ![st] = <<"connected">>]
    /\ stpc' = [stpc EXCEPT ![st] = "connected"]
    /\ UNCHANGED <<notAppVars, now, tableVars, handlerVars, sweepVars, closeVars, sse_clients,
                   server_urls, createRes>>

\* line 186: sse_clients[client_id] = True
stream_register(st) ==
    /\ stpc[st] = "connected"
    /\ sse_clients' = sse_clients \cup {stclient[st]}
    /\ stpc' = [stpc EXCEPT ![st] = "streaming"]
    /\ UNCHANGED <<notAppVars, now, tableVars, handlerVars, sweepVars, closeVars, stclient,
                   stout, server_urls, createRes>>

\* lines 189-201: the loop wakes from its sleep and yields a `ping`; nothing
\* else is ever yielded
stream_ping(st) ==
    /\ stpc[st] = "streaming"
    /\ Len(stout[st]) <= MaxPings
    /\ stout' = [stout EXCEPT ![st] = Append(@, "ping")]
    /\ UNCHANGED <<notAppVars, now, tableVars, handlerVars, sweepVars, closeVars, stpc,
                   stclient, sse_clients, server_urls, createRes>>

\* the client disconnects. At the first yield the generator is outside the try
\* block and just ends; afterwards the finally block (lines 212-216) removes the
\* client id from sse_clients
stream_close(st) ==
    /\ stpc[st] \in {"connected", "streaming"}
    /\ sse_clients' = IF stpc[st] = "streaming"
                      THEN sse_clients \ {stclient[st]} ELSE sse_clients
    /\ stpc' = [stpc EXCEPT ![st] = "idle"]
    /\ stout' = [stout EXCEPT ![st] = <<>>]
    /\ UNCHANGED <<notAppVars, now, tableVars, handlerVars, sweepVars, closeVars, stclient,
                   server_urls, createRes>>

\* server_urls of a deployment without a database backend: SERVER_4_URL is empty
AppServerUrls == [DefaultServerUrls EXCEPT !["4"] = ""]

Streams == {1}

\* the event streams that can be open at a time, two of them for one client
\* id included
AllStreams == 1..MaxStreams

InitApp ==
    /\ now = 0
    /\ sessions = EmptyDict
    /\ heap = EmptyDict
    /\ nextSid = 1
    /\ closedBy = [k \in SessionKeys |-> "none"]
    /\ dup = {}
    /\ sse_clients = {}
    /\ server_urls = AppServerUrls
    /\ createRes = [status |-> 0, sessionId |-> 0]
    /\ hpc = [h \in Handlers |-> "idle"]
    /\ hsid = [h \in Handlers |-> 0]
    /\ hbody = [h \in Handlers |-> NoBody]
    /\ hses = [h \in Handlers |-> 0]
    /\ hrid = [h \in Handlers |-> 0]
    /\ hout = [h \in Handlers |-> ""]
    /\ hposts = [h \in Handlers |-> <<>>]
    /\ hres = [h \in Handlers |-> NoResponse]
    /\ hnotes = [h \in Handlers |-> <<>>]
    /\ spc = "sleep"
    /\ snow = 0
    /\ slist = <<>>
    /\ scur = 0
    /\ sses = 0
    /\ expiredLog = <<>>
    /\ cpc = "idle"
    /\ csid = 0
    /\ cres = 0
    /\ stpc = [st \in AllStreams |-> "idle"]
    /\ stclient = [st \in AllStreams |-> ""]
    /\ stout = [st \in AllStreams |-> <<>>]

(* ---------------------- session_manager/session.py --------------------- *)
\* None
None == [id |-> 0]

\* mutant of Session_create: the client id given is not kept
Session_create_anonymous(session_id, client_id, t) ==
    [id |-> session_id, client_id |-> NoClientId, created |-> t, last_activity |-> t,
     active_requests |-> EmptyDict, metadata |-> EmptyDict]

\* Session.__init__ via Session.create: a fresh id, both timestamps utcnow()
Session_create(session_id, client_id, t) ==
    [id |-> session_id, client_id |-> client_id, created |-> t, last_activity |-> t,
     active_requests |-> EmptyDict, metadata |-> EmptyDict]

\* mutant of Session_is_inactive: the threshold itself already counts as idle
Session_is_inactive_ge(session, t, timeout_seconds) ==
    t - session.last_activity >= timeout_seconds

\* Session.is_inactive at time t
Session_is_inactive(session, t, timeout_seconds) ==
    t - session.last_activity > timeout_seconds

\* mutant of Session_update_activity: the timestamp is a second behind the clock
Session_update_activity_behind(session, t) ==
    [session EXCEPT !.last_activity = t - 1]

\* Session.update_activity at time t: self.last_activity = datetime.utcnow()
Session_update_activity(session, t) ==
    [session EXCEPT !.last_activity = t]

\* the keys and values of the metadata written
MetadataKeys == {"locale"}
MetadataValues == {"en", "fr"}

\* SessionManager.get_session: self.sessions.get(session_id)
SessionManager_get(d, session_id) == DictGet(d, session_id, None)

\* mutant of SessionManager_closed: the session stays in the table
SessionManager_closed_keeps(d, session_id) == d

\* SessionManager.close_session: the table it leaves
SessionManager_closed(d, session_id) ==
    IF session_id \in DOMAIN d THEN DictDel(d, session_id) ELSE d

\* cleanup_inactive_sessions, lines 108-110: the ids of the inactive sessions, in
\* the order of self.sessions.items()
RECURSIVE InactiveSessions(_, _, _, _)
InactiveSessions(d, keys, t, timeout_seconds) ==
    IF keys = <<>> THEN <<>>
    ELSE (IF Session_is_inactive(d[Head(keys)], t, timeout_seconds)
          THEN <<Head(keys)>> ELSE <<>>)
         \o InactiveSessions(d, Tail(keys), t, timeout_seconds)

\* cleanup_inactive_sessions, lines 112-115: close them one after the other
RECURSIVE CloseEach(_, _)
CloseEach(d, ids) ==
    IF ids = <<>> THEN d
    ELSE CloseEach(SessionManager_closed(d, Head(ids)), Tail(ids))

\* SessionManager.create_session
SessionManager_create_session(client_id) ==
    LET session == Session_create(regNext, client_id, now)
    IN /\ mgr' = DictSet(mgr, session.id, session)
       /\ regNext' = regNext + 1
       /\ regOp' = [op |-> "create_session", arg |-> <<client_id>>, ret |-> session.id]
       /\ UNCHANGED <<notRegVars, now>>

\* SessionManager.get_session
SessionManager_get_session(session_id) ==
    /\ regOp' = [op |-> "get_session", arg |-> <<session_id>>,
                 ret |-> SessionManager_get(mgr, session_id).id]
    /\ UNCHANGED <<notRegVars, now, mgr, regNext>>

\* SessionManager.close_session
SessionManager_close_session(session_id) ==
    /\ mgr' = SessionManager_closed(mgr, session_id)
    /\ regOp' = [op |-> "close_session", arg |-> <<session_id>>,
                 ret |-> IF session_id \in DOMAIN mgr THEN 1 ELSE 0]
    /\ UNCHANGED <<notRegVars, now, regNext>>

\* SessionManager.cleanup_inactive_sessions
SessionManager_cleanup_inactive_sessions(timeout_seconds) ==
    LET inactive_sessions ==
            InactiveSessions(mgr, KeysList(DOMAIN mgr), now, timeout_seconds)
    IN /\ mgr' = CloseEach(mgr, inactive_sessions)
       /\ regOp' = [op |-> "cleanup_inactive_sessions", arg |-> <<timeout_seconds>>,
                    ret |-> Len(inactive_sessions)]
       /\ UNCHANGED <<notRegVars, now, regNext>>

\* Session.add_request on the session that get_session gave
Session_add_request(session_id, request_id) ==
    /\ session_id \in DOMAIN mgr
    /\ mgr' = [mgr EXCEPT ![session_id] =
                    Session_update_activity(
                        [@ EXCEPT !.active_requests =
                                      DictSet(@, request_id, [timestamp |-> now])], now)]
    /\ regOp' = [op |-> "add_request", arg |-> <<session_id, request_id>>, ret |-> 0]
    /\ UNCHANGED <<notRegVars, now, regNext>>

\* Session.remove_request on the session that get_session gave
Session_remove_request(session_id, request_id) ==
    /\ session_id \in DOMAIN mgr
    /\ IF request_id \in DOMAIN mgr[session_id].active_requests
       THEN /\ mgr' = [mgr EXCEPT ![session_id] =
                            Session_update_activity(
                                [@ EXCEPT !.active_requests = DictDel(@, request_id)], now)]
            /\ regOp' = [op |-> "remove_request", arg |-> <<session_id, request_id>>,
                         ret |-> 1]
       ELSE /\ regOp' = [op |-> "remove_request", arg |-> <<session_id, request_id>>,
                         ret |-> 0]
            /\ UNCHANGED mgr
    /\ UNCHANGED <<notRegVars, now, regNext>>

\* Session.set_metadata on the session that get_session gave
Session_set_metadata(session_id, key, value) ==
    /\ session_id \in DOMAIN mgr
    /\ mgr' = [mgr EXCEPT ![session_id] =
                    Session_update_activity(
                        [@ EXCEPT !.metadata = DictSet(@, key, value)], now)]
    /\ regOp' = [op |-> "set_metadata", arg |-> <<session_id, key>>, ret |-> 0]
    /\ UNCHANGED <<notRegVars, now, regNext>>

InitReg ==
    /\ mgr = EmptyDict
    /\ regNext = 1
    /\ regOp = [op |-> "", arg |-> <<>>, ret |-> 0]

NextReg ==
    \/ Tick /\ UNCHANGED <<appVars, regVars, dispVars, notifVars, protoVars, routeVars, clientVars>>
    \/ \E c \in ClientIds \cup {NoClientId} :
           regNext <= MaxSessions /\ SessionManager_create_session(c)
    \/ \E k \in SessionKeys : SessionManager_get_session(k)
    \/ \E k \in SessionKeys : SessionManager_close_session(k)
    \/ SessionManager_cleanup_inactive_sessions(IdleThreshold)
    \/ \E k \in SessionKeys, r \in RequestIds : Session_add_request(k, r)
    \/ \E k \in SessionKeys, r \in RequestIds : Session_remove_request(k, r)
    \/ \E k \in SessionKeys, key \in MetadataKeys, value \in MetadataValues :
           Session_set_metadata(k, key, value)

(* --------------- session_manager/dispatcher.py: the calls -------------- *)
\* the types a request carries: the declared ones, the name of the fallback entry,
\* one the table does not declare, null, and a value that is no string
DeclaredTypes ==
    {"resource-request", "sampling-task", "tool-execution", "database-query",
     "internet-search", "root-operation", "prompt-management", "llm-response"}
RequestTypes == DeclaredTypes \cup {"default", "file-upload", NullType, UnhashableType}

\* the requests handed to dispatch: complete, or lacking payload, type or id, or no dict
DispatchRequests ==
    {Envelope("object", ks, 1, IF "type" \in ks THEN ty ELSE "") :
        ks \in {{"id", "timestamp", "type", "payload"}, {"id", "timestamp", "type"},
                {"id", "timestamp", "payload"}, {"timestamp", "type", "payload"}},
        ty \in RequestTypes}
    \cup {Envelope("array", {}, NoId, "")}

\* the configurations a dispatcher is built with: every backend, no database
\* backend, and the resources backend only
ServerUrlConfigs ==
    {DefaultServerUrls, AppServerUrls, [s \in {"1"} |-> DefaultServerUrls[s]]}

\* RequestDispatcher.__init__
RequestDispatcher_init(urls) ==
    /\ dpc = "idle"
    /\ disp_urls' = urls
    /\ health.pc = "idle"
    /\ UNCHANGED <<notDispVars, now, dpc, dreq, dposts, dret, dans, dout, health>>

\* the body of a backend's answer: a JSON object with the keys it has, the
\* values under requestId and status when present, or text that is no JSON
ResponseEnvelope(shape, keys, requestId, status) ==
    [shape |-> shape, keys |-> keys, requestId |-> requestId, status |-> status]

NoResponseBody == ResponseEnvelope("none", {}, 0, "")

\* the bodies a backend sends: response envelopes for the request at hand and
\* for another one, with and without data; an error object; an HTML page
ResponseBodies ==
    {ResponseEnvelope("object", {"id", "timestamp", "requestId", "status", "data"}, r, st) :
        r \in {1, 2}, st \in {"success", "error"}}
    \cup {ResponseEnvelope("object", {"id", "timestamp", "requestId", "status"}, 1, "success"),
          ResponseEnvelope("object", {"error"}, 0, ""),
          ResponseEnvelope("malformed", {}, 0, "")}

\* the status codes a backend answers with
StatusCodes == {200, 201, 204, 404, 500}

\* the RequestExceptions requests.post raises
TransportErrors == {"ConnectionError", "Timeout"}

NoAnswer == [status_code |-> 0, body |-> NoResponseBody, error |-> ""]

\* what requests.post gives: a response with status code and body, or an exception
BackendAnswers ==
    {[status_code |-> c, body |-> b, error |-> ""] : c \in StatusCodes, b \in ResponseBodies}
    \cup {[status_code |-> 0, body |-> NoResponseBody, error |-> e] : e \in TransportErrors}

\* lines 58 and 63: which branch an answer takes
BackendOutcome(answer) ==
    IF answer.error # "" THEN "RequestException"
    ELSE IF answer.status_code # 200 THEN "non200"
    ELSE "200"

\* response.json() of a body that is no JSON raises json's JSONDecodeError (a
\* ValueError) with older versions of requests and requests' own JSONDecodeError
\* (a RequestException, caught at line 63) with newer ones
JsonErrors == {"ValueError: JSONDecodeError", "ValueError: Failed to dispatch request"}

\* nothing returned, nothing named in a message
NoOutput == [value |-> NoResponseBody, server_id |-> "", text |-> NoResponseBody, cause |-> ""]

\* RequestDispatcher.dispatch, lines 33-56: validate, resolve, POST
dispatch_start(request) ==
    /\ dpc = "idle" /\ health.pc = "idle"
    /\ dreq' = request
    /\ LET d == DispatchStart(request, disp_urls)
       IN IF d.raise # ""
          THEN /\ dpc' = "done" /\ dret' = d.raise /\ dposts' = <<>>
               /\ dout' = [NoOutput EXCEPT !.server_id = d.server_id]
          ELSE /\ dpc' = "post"
               /\ dret' = ""
               /\ dposts' = <<[server_id |-> d.server_id, url |-> d.url, json |-> request]>>
               /\ dout' = NoOutput
    /\ dans' = NoAnswer
    /\ UNCHANGED <<notDispVars, now, disp_urls, health>>

\* mutant of dispatch_reply: the response is returned under the id of the request
dispatch_reply_rewrites(answer, json_error) ==
    /\ dpc = "post"
    /\ dpc' = "done"
    /\ dans' = answer
    /\ LET outcome == BackendOutcome(answer)
           server_id == dposts[1].server_id
       IN IF outcome = "200" /\ answer.body.shape # "malformed"
          THEN /\ dret' = DispatchFinish(outcome)
               /\ dout' = [NoOutput EXCEPT !.value = [answer.body EXCEPT !.requestId = dreq.id]]
          ELSE IF outcome = "200"
          THEN /\ dret' = json_error
               /\ dout' = NoOutput
          ELSE IF outcome = "non200"
          THEN /\ dret' = DispatchFinish(outcome)
               /\ dout' = [NoOutput EXCEPT !.server_id = server_id, !.text = answer.body]
          ELSE /\ dret' = DispatchFinish(outcome)
               /\ dout' = [NoOutput EXCEPT !.cause = answer.error]
    /\ UNCHANGED <<notDispVars, now, disp_urls, dreq, dposts, health>>

\* mutant of dispatch_reply: after a transport failure the POST is made once more
dispatch_reply_retries(answer, json_error) ==
    /\ dpc = "post"
    /\ dans' = answer
    /\ LET outcome == BackendOutcome(answer)
           server_id == dposts[1].server_id
       IN IF outcome = "RequestException" /\ Len(dposts) = 1
          THEN /\ dposts' = Append(dposts, dposts[1])
               /\ UNCHANGED <<dpc, dret, dout>>
          ELSE /\ dpc' = "done"
               /\ UNCHANGED dposts
               /\ IF outcome = "200" /\ answer.body.shape # "malformed"
                  THEN /\ dret' = DispatchFinish(outcome)
                       /\ dout' = [NoOutput EXCEPT !.value = answer.body]
                  ELSE IF outcome = "200"
                  THEN /\ dret' = json_error
                       /\ dout' = NoOutput
                  ELSE IF outcome = "non200"
                  THEN /\ dret' = DispatchFinish(outcome)
                       /\ dout' = [NoOutput EXCEPT !.server_id = server_id,
                                                   !.text = answer.body]
                  ELSE /\ dret' = DispatchFinish(outcome)
                       /\ dout' = [NoOutput EXCEPT !.cause = answer.error]
    /\ UNCHANGED <<notDispVars, now, disp_urls, dreq, health>>

\* RequestDispatcher.dispatch, lines 58-65: the outcome of the POST. Line 59
\* names the backend id and response.text in its message, line 65 only str(e)
dispatch_reply(answer, json_error) ==
    /\ dpc = "post"
    /\ dpc' = "done"
    /\ dans' = answer
    /\ LET outcome == BackendOutcome(answer)
           server_id == dposts[1].server_id
       IN IF outcome = "200" /\ answer.body.shape # "malformed"
          THEN /\ dret' = DispatchFinish(outcome)
               /\ dout' = [NoOutput EXCEPT !.value = answer.body]
          ELSE IF outcome = "200"
          THEN /\ dret' = json_error
               /\ dout' = NoOutput
          ELSE IF outcome = "non200"
          THEN /\ dret' = DispatchFinish(outcome)
               /\ dout' = [NoOutput EXCEPT !.server_id = server_id, !.text = answer.body]
          ELSE /\ dret' = DispatchFinish(outcome)
               /\ dout' = [NoOutput EXCEPT !.cause = answer.error]
    /\ UNCHANGED <<notDispVars, now, disp_urls, dreq, dposts, health>>

\* the caller has the result; the next call of dispatch starts
dispatch_return ==
    /\ dpc = "done"
    /\ dpc' = "idle"
    /\ dreq' = NoBody
    /\ dposts' = <<>>
    /\ dret' = ""
    /\ dans' = NoAnswer
    /\ dout' = NoOutput
    /\ UNCHANGED <<notDispVars, now, disp_urls, health>>

(* ---------------- RequestDispatcher.check_health ---------------------- *)
\* server_urls.items(): the ids in the order in which app.py's dict literal
\* names them
ServerIdOrder == <<"1", "2", "3", "4", "5", "6", "7">>

ServerItems(urls) == SelectSeq(ServerIdOrder, LAMBDA id : id \in DOMAIN urls)

\* what requests.get(.../health) gives: 200 with the backend's report (healthy
\* or degraded), 200 with a body that is no JSON, 500, or an exception
HealthAnswers ==
    {[status_code |-> 200, body |-> ResponseEnvelope("object", {"status"}, 0, st), error |-> ""] :
        st \in {"healthy", "degraded"}}
    \cup {[status_code |-> c, body |-> ResponseEnvelope("malformed", {}, 0, ""), error |-> ""] :
            c \in {200, 500}}
    \cup {[status_code |-> 0, body |-> NoResponseBody, error |-> "ConnectionError"]}

\* one entry of results: status, and details or the parts of the error text
HealthResult(status, details, http, text, exc) ==
    [status |-> status, details |-> details, http |-> http, text |-> text, exc |-> exc]

NoHealth == [pc |-> "idle", items |-> <<>>, results |-> EmptyDict, probes |-> EmptyDict]

\* lines 72-93: the entry of results that one probe leaves
ProbeResult(answer) ==
    IF answer.error # ""
    THEN HealthResult("unhealthy", NoResponseBody, 0, NoResponseBody, answer.error)
    ELSE IF answer.status_code = 200
    THEN IF answer.body.shape = "malformed"
         THEN HealthResult("unhealthy", NoResponseBody, 0, NoResponseBody, "JSONDecodeError")
         ELSE HealthResult("healthy", answer.body, 0, NoResponseBody, "")
    ELSE HealthResult("unhealthy", NoResponseBody, answer.status_code, answer.body, "")

\* check_health, lines 69-71: results = {} and the loop over server_urls.items()
check_health_call ==
    /\ dpc = "idle" /\ health.pc = "idle"
    /\ health' = [pc |-> "loop", items |-> ServerItems(disp_urls),
                  results |-> EmptyDict, probes |-> EmptyDict]
    /\ UNCHANGED <<notDispVars, now, disp_urls, dpc, dreq, dposts, dret, dans, dout>>

\* mutant of check_health_probe: a probe that raises ends the loop
check_health_probe_aborts(answer) ==
    /\ health.pc = "loop" /\ health.items # <<>>
    /\ LET server_id == Head(health.items)
       IN health' = [health EXCEPT
              !.items = IF answer.error # "" THEN <<>> ELSE Tail(@),
              !.results = IF answer.error # "" THEN @
                          ELSE DictSet(@, server_id, ProbeResult(answer)),
              !.probes = DictSet(@, server_id, answer)]
    /\ UNCHANGED <<notDispVars, now, disp_urls, dpc, dreq, dposts, dret, dans, dout>>

\* lines 71-93: one turn of the loop, the probe of the next backend
check_health_probe(answer) ==
    /\ health.pc = "loop" /\ health.items # <<>>
    /\ LET server_id == Head(health.items)
       IN health' = [health EXCEPT
              !.items = Tail(@),
              !.results = DictSet(@, server_id, ProbeResult(answer)),
              !.probes = DictSet(@, server_id, answer)]
    /\ UNCHANGED <<notDispVars, now, disp_urls, dpc, dreq, dposts, dret, dans, dout>>

\* line 95: return results
check_health_done ==
    /\ health.pc = "loop" /\ health.items = <<>>
    /\ health' = [health EXCEPT !.pc = "done"]
    /\ UNCHANGED <<notDispVars, now, disp_urls, dpc, dreq, dposts, dret, dans, dout>>

\* the caller has the results
check_health_return ==
    /\ health.pc = "done"
    /\ health' = NoHealth
    /\ UNCHANGED <<notDispVars, now, disp_urls, dpc, dreq, dposts, dret, dans, dout>>

InitDisp ==
    /\ health = NoHealth
    /\ disp_urls = DefaultServerUrls
    /\ dpc = "idle"
    /\ dreq = NoBody
    /\ dposts = <<>>
    /\ dret = ""
    /\ dans = NoAnswer
    /\ dout = NoOutput

NextDisp ==
    \/ \E u \in ServerUrlConfigs : RequestDispatcher_init(u)
    \/ \E r \in DispatchRequests : dispatch_start(r)
    \/ \E a \in BackendAnswers, e \in JsonErrors : dispatch_reply(a, e)
    \/ dispatch_return
    \/ check_health_call
    \/ \E a \in HealthAnswers : check_health_probe(a)
    \/ check_health_done
    \/ check_health_return

(* ------------------ session_manager/notifications.py ------------------- *)
\* the clients, in the order in which they first register
NotifClientSeq == <<"c1", "c2", "c3", "c4", "c5">>
NotifClients == {NotifClientSeq[i] : i \in 1..MaxClients}
Threads == 1..MaxThreads

\* the elements of a sequence
Range(q) == {q[i] : i \in DOMAIN q}

\* del d[k] on a dict kept as the sequence of its keys
RECURSIVE SeqDel(_, _)
SeqDel(q, k) ==
    IF q = <<>> THEN <<>>
    ELSE (IF Head(q) = k THEN <<>> ELSE <<Head(q)>>) \o SeqDel(Tail(q), k)

\* MCPProtocol.create_notification: a fresh id, the type, the data
create_notification(id, notification_type) == [id |-> id, type |-> notification_type]

\* the id of the `connected` notification, which no claim tells apart by id
ConnectedId == 0

\* a thread between two calls
NoCall == [op |-> "", client |-> "", note |-> create_notification(0, "")]
NoSnap == [clients |-> <<>>, queues |-> EmptyDict, written |-> EmptyDict]
IdleFrame ==
    [pc |-> "idle", call |-> NoCall, caller |-> "", list |-> <<>>, sent_count |-> 0,
     ret |-> "", wrote |-> {}, fail |-> {}, snap |-> NoSnap, post |-> NoSnap]

\* what a call sees of the handler when it takes the lock and when it returns
SnapshotOf(cl, qs, wr) == [clients |-> cl, queues |-> qs, written |-> wr]
Snapshot == SnapshotOf(clients, notification_queues, written)

\* the polling threads
Pollers == 1..MaxPollers

\* a polling thread between two calls. `at` says which Queue object the local q
\* names: none, the one the dict holds for the client, or one the dict no
\* longer holds, whose content is `own` and which the threads `mates` name too;
\* `cut` is the call that took that object out of the dict, and `late` the
\* number of items the call has taken from it while the dict held a newer queue
\* for the client
IdlePoll ==
    [pc |-> "idle", client |-> "", max_count |-> <<>>, at |-> "none", own |-> <<>>,
     mates |-> {}, notifications |-> <<>>, count |-> 0, ret |-> "", snap |-> EmptyDict,
     post |-> EmptyDict, cut |-> "", late |-> 0]

\* the dict entry of client_id is replaced or deleted: the Queue object lives on
\* in the threads whose q names it
Detached(client_id, by) ==
    LET holders == {p \in Pollers : polls[p].at = "dict" /\ polls[p].client = client_id}
    IN [p \in Pollers |->
           IF p \in holders
           THEN [polls[p] EXCEPT !.at = "own", !.own = notification_queues[client_id],
                                 !.mates = holders \ {p}, !.cut = by]
           ELSE polls[p]]

\* unregister_client, line 49: `with self.lock`, entered from outside or from
\* send_notification and broadcast_notification. threading.Lock.acquire blocks
\* until the lock is free, whoever holds it.
unregister_client_acquire(t) ==
    /\ frames[t].pc = "u_acquire"
    /\ lock = 0
    /\ lock' = t
    /\ frames' = [frames EXCEPT ![t].pc = "u_client",
                                ![t].snap = IF frames[t].caller = "" THEN Snapshot ELSE @]
    /\ UNCHANGED <<notNotifVars, now, polls, clients, notification_queues, chan, written,
                   nextNote, nseen>>

\* a call of register_client, send_notification or broadcast_notification gets
\* past its `with self.lock`: a thread waiting there has done nothing yet
CallLocked(t, call, pc) ==
    /\ frames[t].pc = "idle"
    /\ lock = 0
    /\ lock' = t
    /\ frames' = [frames EXCEPT ![t].pc = pc, ![t].call = call, ![t].snap = Snapshot]

\* register_client(client_id, response)
register_client_call(t, client_id) ==
    /\ \E i \in 1..MaxClients :
          /\ client_id = NotifClientSeq[i]
          /\ i <= nseen + 1
          /\ nseen' = IF i > nseen THEN i ELSE nseen
    /\ CallLocked(t, [op |-> "register_client", client |-> client_id,
                      note |-> NoCall.note], "r_queue")
    /\ UNCHANGED <<notNotifVars, now, polls, clients, notification_queues, chan, written,
                   nextNote>>

\* line 28: self.notification_queues[client_id] = queue.Queue()
register_client_queue(t) ==
    /\ frames[t].pc = "r_queue"
    /\ notification_queues' = DictSet(notification_queues, frames[t].call.client, <<>>)
    /\ polls' = Detached(frames[t].call.client, "register_client")
    /\ frames' = [frames EXCEPT ![t].pc = "r_client"]
    /\ UNCHANGED <<notNotifVars, now, clients, lock, chan, written, nextNote, nseen>>

\* mutant of register_client_client: the response object is not stored
register_client_client_skips(t) ==
    /\ frames[t].pc = "r_client"
    /\ chan' = [chan EXCEPT ![frames[t].call.client] = "open"]
    /\ written' = [written EXCEPT ![frames[t].call.client] = <<>>]
    /\ frames' = [frames EXCEPT ![t].pc = "r_send"]
    /\ UNCHANGED <<notNotifVars, now, polls, clients, notification_queues, lock, nextNote,
                   nseen>>

\* line 31: self.clients[client_id] = response, the response object of a new
\* connection: nothing written to it yet
register_client_client(t) ==
    /\ frames[t].pc = "r_client"
    /\ clients' = IF frames[t].call.client \in Range(clients) THEN clients
                  ELSE Append(clients, frames[t].call.client)
    /\ chan' = [chan EXCEPT ![frames[t].call.client] = "open"]
    /\ written' = [written EXCEPT ![frames[t].call.client] = <<>>]
    /\ frames' = [frames EXCEPT ![t].pc = "r_send"]
    /\ UNCHANGED <<notNotifVars, now, polls, notification_queues, lock, nextNote, nseen>>

\* lines 36-45: the `connected` notification; a failed write propagates to the
\* caller, the `with` releasing the lock on the way
register_client_send(t) ==
    /\ frames[t].pc = "r_send"
    /\ LET c == frames[t].call.client
           ok == chan[c] = "open"
           w == IF ok
                THEN [written EXCEPT ![c] =
                         Append(@, create_notification(ConnectedId, "connected"))]
                ELSE written
       IN /\ written' = w
          /\ frames' = [frames EXCEPT ![t].pc = "done",
                                      ![t].ret = IF ok THEN "None" ELSE "raise",
                                      ![t].post = SnapshotOf(clients, notification_queues, w)]
    /\ lock' = 0
    /\ UNCHANGED <<notNotifVars, now, polls, clients, notification_queues, chan, nextNote, nseen>>

\* unregister_client(client_id), called from outside
unregister_client_call(t, client_id) ==
    /\ frames[t].pc = "idle"
    /\ frames' = [frames EXCEPT ![t].pc = "u_acquire",
                     ![t].call = [op |-> "unregister_client", client |-> client_id,
                                  note |-> NoCall.note]]
    /\ UNCHANGED <<notNotifVars, now, polls, clients, notification_queues, lock, chan, written,
                   nextNote, nseen>>

\* unregister_client returns `result` and its `with` releases the lock. Called
\* from outside, the call is over. Called from send_notification, line 92 returns
\* False through the outer `with`, which releases a lock that is not held:
\* RuntimeError. Called from broadcast_notification, the loop goes on.
UnregisterReturn(f, result, post) ==
    CASE f.caller = "" ->
            [f EXCEPT !.pc = "done", !.ret = result, !.post = post]
      [] f.caller = "send_notification" ->
            [f EXCEPT !.pc = "done", !.ret = "RuntimeError", !.post = post, !.caller = ""]
      [] f.caller = "broadcast_notification" ->
            [f EXCEPT !.pc = "b_next", !.list = Tail(@), !.caller = ""]

\* lines 50-51: `if client_id in self.clients: del self.clients[client_id]`, else
\* line 58: return False
unregister_client_client(t) ==
    /\ frames[t].pc = "u_client"
    /\ IF frames[t].call.client \in Range(clients)
       THEN /\ clients' = SeqDel(clients, frames[t].call.client)
            /\ frames' = [frames EXCEPT ![t].pc = "u_queue"]
            /\ UNCHANGED lock
       ELSE /\ frames' = [frames EXCEPT ![t] = UnregisterReturn(@, "False", Snapshot)]
            /\ lock' = 0
            /\ UNCHANGED clients
    /\ UNCHANGED <<notNotifVars, now, polls, notification_queues, chan, written, nextNote, nseen>>

\* mutant of unregister_client_queue: the queue is left behind
unregister_client_queue_keeps(t) ==
    /\ frames[t].pc = "u_queue"
    /\ frames' = [frames EXCEPT ![t] = UnregisterReturn(@, "True", Snapshot)]
    /\ lock' = 0
    /\ UNCHANGED <<notNotifVars, now, polls, clients, notification_queues, chan, written,
                   nextNote, nseen>>

\* lines 53-57: drop the queue, return True
unregister_client_queue(t) ==
    /\ frames[t].pc = "u_queue"
    /\ LET qs == IF frames[t].call.client \in DOMAIN notification_queues
                 THEN DictDel(notification_queues, frames[t].call.client)
                 ELSE notification_queues
       IN /\ notification_queues' = qs
          /\ frames' = [frames EXCEPT ![t] =
                           UnregisterReturn(@, "True", SnapshotOf(clients, qs, written))]
    /\ polls' = Detached(frames[t].call.client, "unregister_client")
    /\ lock' = 0
    /\ UNCHANGED <<notNotifVars, now, clients, chan, written, nextNote, nseen>>

\* send_notification(client_id, notification_data), of at most maxNotes
\* notifications in all
send_notification_enter(t, client_id, maxNotes) ==
    /\ nextNote <= maxNotes \/ client_id \notin Range(clients)
    /\ CallLocked(t, [op |-> "send_notification", client |-> client_id,
                      note |-> NoCall.note], "s_check")
    /\ UNCHANGED <<notNotifVars, now, polls, clients, notification_queues, chan, written,
                   nextNote, nseen>>

send_notification_call(t, client_id) == send_notification_enter(t, client_id, MaxNotes)

\* mutant of send_notification_check: an unregistered client is given a queue
send_notification_check_queues(t) ==
    /\ frames[t].pc = "s_check"
    /\ IF frames[t].call.client \notin Range(clients)
       THEN /\ notification_queues' =
                   DictSet(notification_queues, frames[t].call.client, <<>>)
            /\ frames' = [frames EXCEPT ![t].pc = "done", ![t].ret = "False",
                              ![t].post = SnapshotOf(clients,
                                  DictSet(notification_queues, frames[t].call.client, <<>>),
                                  written)]
            /\ lock' = 0
            /\ UNCHANGED nextNote
       ELSE /\ frames' = [frames EXCEPT ![t].pc = "s_put",
                              ![t].call.note = create_notification(nextNote, "event")]
            /\ nextNote' = nextNote + 1
            /\ UNCHANGED <<lock, notification_queues>>
    /\ UNCHANGED <<notNotifVars, now, polls, clients, chan, written, nseen>>

\* lines 63-75: unregistered: return False; else the response object and the
\* notification
send_notification_check(t) ==
    /\ frames[t].pc = "s_check"
    /\ IF frames[t].call.client \notin Range(clients)
       THEN /\ frames' = [frames EXCEPT ![t].pc = "done", ![t].ret = "False",
                                        ![t].post = Snapshot]
            /\ lock' = 0
            /\ UNCHANGED nextNote
       ELSE /\ frames' = [frames EXCEPT ![t].pc = "s_put",
                              ![t].call.note = create_notification(nextNote, "event")]
            /\ nextNote' = nextNote + 1
            /\ UNCHANGED lock
    /\ UNCHANGED <<notNotifVars, now, polls, clients, notification_queues, chan, written, nseen>>

\* lines 79-80: put the notification on the client's queue
send_notification_put(t) ==
    /\ frames[t].pc = "s_put"
    /\ notification_queues' =
           IF frames[t].call.client \in DOMAIN notification_queues
           THEN [notification_queues EXCEPT ![frames[t].call.client] =
                    Append(@, frames[t].call.note)]
           ELSE notification_queues
    /\ frames' = [frames EXCEPT ![t].pc = "s_write"]
    /\ UNCHANGED <<notNotifVars, now, polls, clients, lock, chan, written, nextNote, nseen>>

\* mutant of send_notification_write: a notification that was written is taken
\* off the queue again
send_notification_write_dequeues(t) ==
    /\ frames[t].pc = "s_write"
    /\ LET c == frames[t].call.client
       IN IF chan[c] = "open"
          THEN /\ written' = [written EXCEPT ![c] = Append(@, frames[t].call.note)]
               /\ notification_queues' =
                      IF c \in DOMAIN notification_queues
                      THEN [notification_queues EXCEPT ![c] =
                               SubSeq(@, 1, Len(@) - 1)]
                      ELSE notification_queues
               /\ frames' = [frames EXCEPT ![t].pc = "done", ![t].ret = "True",
                                 ![t].wrote = {c},
                                 ![t].post = SnapshotOf(clients, notification_queues,
                                     [written EXCEPT ![c] = Append(@, frames[t].call.note)])]
               /\ lock' = 0
          ELSE /\ frames' = [frames EXCEPT ![t].pc = "u_acquire", ![t].fail = {c},
                                           ![t].caller = "send_notification"]
               /\ UNCHANGED <<written, lock, notification_queues>>
    /\ UNCHANGED <<notNotifVars, now, polls, clients, chan, nextNote, nseen>>

\* lines 83-91: write to the response object and return True; when the write
\* raises, call self.unregister_client(client_id), the lock still held
send_notification_write(t) ==
    /\ frames[t].pc = "s_write"
    /\ LET c == frames[t].call.client
       IN IF chan[c] = "open"
          THEN /\ written' = [written EXCEPT ![c] = Append(@, frames[t].call.note)]
               /\ frames' = [frames EXCEPT ![t].pc = "done", ![t].ret = "True",
                                 ![t].wrote = {c},
                                 ![t].post = SnapshotOf(clients, notification_queues,
                                     [written EXCEPT ![c] = Append(@, frames[t].call.note)])]
               /\ lock' = 0
          ELSE /\ frames' = [frames EXCEPT ![t].pc = "u_acquire", ![t].fail = {c},
                                           ![t].caller = "send_notification"]
               /\ UNCHANGED <<written, lock>>
    /\ UNCHANGED <<notNotifVars, now, polls, clients, notification_queues, chan, nextNote, nseen>>

\* broadcast_notification(notification_data), lines 97-105
broadcast_notification_call(t) ==
    /\ nextNote <= MaxNotes
    /\ CallLocked(t, [op |-> "broadcast_notification", client |-> "",
                      note |-> create_notification(nextNote, "broadcast")], "b_list")
    /\ nextNote' = nextNote + 1
    /\ UNCHANGED <<notNotifVars, now, polls, clients, notification_queues, chan, written,
                   nseen>>

\* line 106: list(self.clients.items())
broadcast_notification_list(t) ==
    /\ frames[t].pc = "b_list"
    /\ frames' = [frames EXCEPT ![t].pc = "b_next", ![t].list = clients]
    /\ UNCHANGED <<notNotifVars, now, polls, clients, notification_queues, lock, chan, written,
                   nextNote, nseen>>

\* lines 106-110 and 120-123: the next client's queue, or the end of the loop:
\* the `with` releases the lock (RuntimeError if it is not held) and the count
\* is returned
broadcast_notification_next(t) ==
    /\ frames[t].pc = "b_next"
    /\ IF frames[t].list = <<>>
       THEN /\ frames' = [frames EXCEPT ![t].pc = "done",
                             ![t].ret = IF lock = t THEN "sent_count" ELSE "RuntimeError",
                             ![t].post = Snapshot]
            /\ lock' = IF lock = t THEN 0 ELSE lock
            /\ UNCHANGED notification_queues
       ELSE /\ notification_queues' =
                   IF Head(frames[t].list) \in DOMAIN notification_queues
                   THEN [notification_queues EXCEPT ![Head(frames[t].list)] =
                            Append(@, frames[t].call.note)]
                   ELSE notification_queues
            /\ frames' = [frames EXCEPT ![t].pc = "b_write"]
            /\ UNCHANGED lock
    /\ UNCHANGED <<notNotifVars, now, polls, clients, chan, written, nextNote, nseen>>

\* lines 113-118: write and count; when the write raises, call
\* self.unregister_client(client_id), the lock still held
broadcast_notification_write(t) ==
    /\ frames[t].pc = "b_write"
    /\ LET c == Head(frames[t].list)
       IN IF chan[c] = "open"
          THEN /\ written' = [written EXCEPT ![c] = Append(@, frames[t].call.note)]
               /\ frames' = [frames EXCEPT ![t].pc = "b_next", ![t].list = Tail(@),
                                           ![t].sent_count = @ + 1,
                                           ![t].wrote = @ \cup {c}]
          ELSE /\ frames' = [frames EXCEPT ![t].pc = "u_acquire",
                                           ![t].fail = @ \cup {c},
                                           ![t].call.client = c,
                                           ![t].caller = "broadcast_notification"]
               /\ UNCHANGED written
    /\ UNCHANGED <<notNotifVars, now, polls, clients, notification_queues, lock, chan, nextNote,
                   nseen>>

\* the caller has the result; the thread is free for the next call
thread_return(t) ==
    /\ frames[t].pc = "done"
    /\ frames' = [frames EXCEPT ![t] = IdleFrame]
    /\ UNCHANGED <<notNotifVars, now, polls, clients, notification_queues, lock, chan, written,
                   nextNote, nseen>>

\* a registered client goes away: from now on a write to its response object
\* raises
channel_break(client_id) ==
    /\ client_id \in Range(clients)
    /\ chan[client_id] = "open"
    /\ chan' = [chan EXCEPT ![client_id] = "broken"]
    /\ UNCHANGED <<notNotifVars, now, polls, clients, notification_queues, lock, written,
                   nextNote, nseen, frames>>

(* ---------- NotificationsHandler.get_client_notifications ------------- *)
\* the max_count argument: None (<<>>) or a number (<<n>>)
MaxCounts == {<<>>, <<0>>, <<1>>, <<2>>}

\* the content of the Queue object that the local q of thread p names
QueueOf(p) ==
    IF polls[p].at = "dict" THEN notification_queues[polls[p].client] ELSE polls[p].own

\* the call of thread p ends with `ret`; its q is gone
PollDone(p, ret, queues) ==
    [r \in Pollers |->
        IF r = p
        THEN [polls[p] EXCEPT !.pc = "done", !.ret = ret, !.at = "none", !.own = <<>>,
                              !.mates = {}, !.post = queues]
        ELSE [polls[r] EXCEPT !.mates = @ \ {p}]]

\* get_client_notifications(client_id, max_count), lines 127-130: no queue,
\* return []; else notifications = []. The method takes no lock.
get_client_notifications_call(p, client_id, max_count) ==
    /\ polls[p].pc = "idle"
    /\ polls' = IF client_id \notin DOMAIN notification_queues
                THEN [polls EXCEPT ![p] =
                         [IdlePoll EXCEPT !.pc = "done", !.client = client_id,
                                          !.max_count = max_count, !.ret = "list",
                                          !.snap = notification_queues,
                                          !.post = notification_queues]]
                ELSE [polls EXCEPT ![p] =
                         [IdlePoll EXCEPT !.pc = "p_fetch", !.client = client_id,
                                          !.max_count = max_count,
                                          !.snap = notification_queues]]
    /\ UNCHANGED <<notNotifVars, now, clients, notification_queues, lock, chan, written,
                   nextNote, nseen, frames>>

\* line 131: q = self.notification_queues[client_id]; KeyError when the entry
\* has gone since line 127
get_client_notifications_fetch(p) ==
    /\ polls[p].pc = "p_fetch"
    /\ polls' = IF polls[p].client \in DOMAIN notification_queues
                THEN [polls EXCEPT ![p].pc = "p_test", ![p].at = "dict"]
                ELSE PollDone(p, "KeyError", notification_queues)
    /\ UNCHANGED <<notNotifVars, now, clients, notification_queues, lock, chan, written,
                   nextNote, nseen, frames>>

\* line 135: while not q.empty() and (max_count is None or count < max_count);
\* line 139: return notifications
get_client_notifications_test(p) ==
    /\ polls[p].pc = "p_test"
    /\ polls' = IF /\ QueueOf(p) # <<>>
                   /\ polls[p].max_count = <<>> \/ polls[p].count < polls[p].max_count[1]
                THEN [polls EXCEPT ![p].pc = "p_get"]
                ELSE PollDone(p, "list", notification_queues)
    /\ UNCHANGED <<notNotifVars, now, clients, notification_queues, lock, chan, written,
                   nextNote, nseen, frames>>

\* lines 136-137: notifications.append(q.get()); count += 1. Queue.get()
\* without a timeout blocks while the queue is empty
get_client_notifications_get(p) ==
    /\ polls[p].pc = "p_get"
    /\ QueueOf(p) # <<>>
    /\ LET q == QueueOf(p)
           item == Head(q)
           rest == Tail(q)
           sharing == IF polls[p].at = "own" THEN polls[p].mates \cup {p} ELSE {p}
       IN /\ notification_queues' =
                 IF polls[p].at = "dict"
                 THEN [notification_queues EXCEPT ![polls[p].client] = rest]
                 ELSE notification_queues
          /\ polls' = [r \in Pollers |->
                IF r \notin sharing THEN polls[r]
                ELSE [polls[r] EXCEPT
                        !.own = IF polls[r].at = "own" THEN rest ELSE @,
                        !.notifications = IF r = p THEN Append(@, item) ELSE @,
                        !.count = IF r = p THEN @ + 1 ELSE @,
                        !.late = IF /\ r = p /\ polls[p].at = "own"
                                    /\ polls[p].client \in DOMAIN notification_queues
                                 THEN @ + 1 ELSE @,
                        !.pc = IF r = p THEN "p_test" ELSE @]]
    /\ UNCHANGED <<notNotifVars, now, clients, lock, chan, written, nextNote, nseen, frames>>

\* the caller has the list; the thread is free for the next call
get_client_notifications_return(p) ==
    /\ polls[p].pc = "done"
    /\ polls' = [polls EXCEPT ![p] = IdlePoll]
    /\ UNCHANGED <<notNotifVars, now, clients, notification_queues, lock, chan, written,
                   nextNote, nseen, frames>>

\* NotificationsHandler.__init__
InitNotif ==
    /\ clients = <<>>
    /\ notification_queues = EmptyDict
    /\ lock = 0
    /\ chan = [c \in NotifClients |-> "open"]
    /\ written = [c \in NotifClients |-> <<>>]
    /\ nextNote = 1
    /\ nseen = 0
    /\ frames = [t \in Threads |-> IdleFrame]
    /\ polls = [p \in Pollers |-> IdlePoll]

\* the steps of thread t inside a call
ThreadStep(t) ==
    \/ unregister_client_acquire(t)
    \/ register_client_queue(t)
    \/ register_client_client(t)
    \/ register_client_send(t)
    \/ unregister_client_client(t)
    \/ unregister_client_queue(t)
    \/ send_notification_check(t)
    \/ send_notification_put(t)
    \/ send_notification_write(t)
    \/ broadcast_notification_list(t)
    \/ broadcast_notification_next(t)
    \/ broadcast_notification_write(t)
    \/ thread_return(t)

\* the threads are interchangeable: a call goes to the first free one
FirstFreeThread(t) ==
    frames[t].pc = "idle" /\ \A u \in Threads : u < t => frames[u].pc # "idle"

\* handing the result to the caller touches nothing shared: it is the next step
\* taken once a call is over
NoneDone == \A t \in Threads : frames[t].pc # "done"

NextNotif ==
    \/ \E t \in Threads, c \in NotifClients :
           NoneDone /\ FirstFreeThread(t) /\ register_client_call(t, c)
    \/ \E t \in Threads, c \in NotifClients :
           NoneDone /\ FirstFreeThread(t) /\ unregister_client_call(t, c)
    \/ \E t \in Threads, c \in NotifClients :
           NoneDone /\ FirstFreeThread(t) /\ send_notification_call(t, c)
    \/ \E t \in Threads : NoneDone /\ FirstFreeThread(t) /\ broadcast_notification_call(t)
    \/ \E t \in Threads : (NoneDone \/ frames[t].pc = "done") /\ ThreadStep(t)
    \/ \E c \in NotifClients : NoneDone /\ channel_break(c)

\* the clients that poll, and the one thread that registers, unregisters and
\* sends while they do
PollClients == {NotifClientSeq[1], NotifClientSeq[2]}

FirstFreePoller(p) ==
    polls[p].pc = "idle" /\ \A r \in Pollers : r < p => polls[r].pc # "idle"

NoPollDone == \A p \in Pollers : polls[p].pc # "done"

\* concurrent: the polling threads and the sending thread interleave freely
NextPoll ==
    \/ \E c \in PollClients : NoPollDone /\ register_client_call(1, c)
    \/ \E c \in PollClients : NoPollDone /\ unregister_client_call(1, c)
    \/ \E c \in PollClients : NoPollDone /\ send_notification_enter(1, c, MaxQueued)
    \/ NoPollDone /\ unregister_client_acquire(1)
    \/ NoPollDone /\ register_client_queue(1)
    \/ NoPollDone /\ register_client_client(1)
    \/ NoPollDone /\ register_client_send(1)
    \/ NoPollDone /\ unregister_client_client(1)
    \/ NoPollDone /\ unregister_client_queue(1)
    \/ NoPollDone /\ send_notification_check(1)
    \/ NoPollDone /\ send_notification_put(1)
    \/ NoPollDone /\ send_notification_write(1)
    \/ NoPollDone /\ thread_return(1)
    \/ \E p \in Pollers, c \in PollClients, m \in MaxCounts :
           NoPollDone /\ FirstFreePoller(p) /\ get_client_notifications_call(p, c, m)
    \/ \E p \in Pollers : NoPollDone /\ get_client_notifications_fetch(p)
    \/ \E p \in Pollers : NoPollDone /\ get_client_notifications_test(p)
    \/ \E p \in Pollers : NoPollDone /\ get_client_notifications_get(p)
    \/ \E p \in Pollers : get_client_notifications_return(p)

\* one call at a time: a step of NextPoll taken while no other thread is inside
\* a call
NextPollSeq ==
    /\ NextPoll
    /\ \/ frames[1].pc = "idle" /\ frames'[1].pc = "idle"
       \/ \A p \in Pollers : polls[p].pc = "idle" /\ polls'[p].pc = "idle"

\* get_client_count(), lines 151-153: len(self.clients); the method takes no lock
get_client_count_call(p) ==
    /\ polls[p].pc = "idle"
    /\ polls' = [polls EXCEPT ![p] =
                    [IdlePoll EXCEPT !.pc = "done", !.ret = "int", !.count = Len(clients),
                                     !.snap = notification_queues,
                                     !.post = notification_queues]]
    /\ UNCHANGED <<notNotifVars, now, clients, notification_queues, lock, chan, written,
                   nextNote, nseen, frames>>

\* is_client_connected(client_id), lines 155-157: client_id in self.clients; the
\* method takes no lock
is_client_connected_call(p, client_id) ==
    /\ polls[p].pc = "idle"
    /\ polls' = [polls EXCEPT ![p] =
                    [IdlePoll EXCEPT !.pc = "done", !.client = client_id,
                                     !.ret = IF client_id \in Range(clients)
                                             THEN "True" ELSE "False",
                                     !.snap = notification_queues,
                                     !.post = notification_queues]]
    /\ UNCHANGED <<notNotifVars, now, clients, notification_queues, lock, chan, written,
                   nextNote, nseen, frames>>

\* the three methods that read the maps without the lock, beside the thread
\* that registers, unregisters and sends
NextRead ==
    \/ NextPoll
    \/ \E p \in Pollers : NoPollDone /\ FirstFreePoller(p) /\ get_client_count_call(p)
    \/ \E p \in Pollers, c \in PollClients :
           NoPollDone /\ FirstFreePoller(p) /\ is_client_connected_call(p, c)

(* ------------------- common/protocol.py: the calls --------------------- *)
\* the fields a message carries: those validate_message looks for, and two it
\* does not
MessageFields ==
    {"id", "timestamp", "type", "payload", "requestId", "status", "data", "metadata",
     "sessionId"}

\* the values handed to validate_message: dicts with any of the fields, and
\* values that are no dict (a list, a string, None)
Messages ==
    {Envelope("object", ks, NoId, "") : ks \in SUBSET MessageFields}
    \cup {Envelope(sh, {}, NoId, "") : sh \in {"array", "string", "null"}}

\* the message_type argument: the three kinds and one that is none of them
MessageTypes == {"request", "response", "notification", "event"}

NoValidation == [message |-> NoBody, message_type |-> "", ret |-> FALSE]

\* one call of MCPProtocol.validate_message
validate_message_call(message, message_type) ==
    /\ vcall' = [message |-> message, message_type |-> message_type,
                 ret |-> validate_message(message, message_type)]
    /\ UNCHANGED <<notProtoVars, now>>

InitProto == vcall = NoValidation

NextProto ==
    \E m \in Messages, k \in MessageTypes : validate_message_call(m, k)

(* ------------ session_manager/dispatcher.py: the routing step ---------- *)
\* a request with what it carries beside its type: an id, a payload, and
\* metadata or none
RouteRequest(keys, id, type, payload) ==
    [shape |-> "object", keys |-> keys, id |-> id, type |-> type, payload |-> payload]

RouteKeys ==
    {{"id", "timestamp", "type", "payload"},
     {"id", "timestamp", "type", "payload", "metadata"},
     {"id", "timestamp", "type"}}
RoutePayloads == {"{}", "{\"type\": \"database-query\"}"}

RouteRequests ==
    {RouteRequest(ks, i, ty, p) :
        ks \in RouteKeys, i \in 1..MaxRouteIds, ty \in RequestTypes, p \in RoutePayloads}

\* dispatcher.dispatch(request_data) as handle_request calls it (app.py:124) for
\* a request of session `session`: lines 33-41, by the table the dispatcher has
dispatch_route(request, session) ==
    /\ Len(rcalls) < MaxRoutes
    /\ dpc = "idle" /\ health.pc = "idle"
    /\ rcalls' = Append(rcalls, [request |-> request, session |-> session,
                                 out |-> DispatchStart(request, disp_urls)])
    /\ UNCHANGED <<notRouteVars, now, dispVars>>

\* the calls are over
dispatch_route_return ==
    /\ Len(rcalls) = MaxRoutes
    /\ rcalls' = <<>>
    /\ UNCHANGED <<notRouteVars, now, dispVars>>

InitRoute == rcalls = <<>>

\* the dispatcher is built before the requests come in (app.py:37)
NextRoute ==
    \/ \E u \in ServerUrlConfigs : rcalls = <<>> /\ RequestDispatcher_init(u)
    \/ \E r \in RouteRequests, k \in SessionKeys : dispatch_route(r, k)
    \/ dispatch_route_return

(* ------------------------- client/sse_client.py ------------------------ *)
notClientVars == <<appVars, regVars, dispVars, notifVars, protoVars, routeVars>>

\* the Thread objects connect() can make
Listeners == 1..MaxListeners

\* Thread.is_alive(): started and not yet ended
IsAlive(t) == lpc[t] \notin {"unborn", "dead"}

\* the Thread object the next connect() makes
Unborn == {t \in Listeners : lpc[t] = "unborn"}

\* what session.get gives (lines 42-47, 78-91): a status code or an exception
GetOutcomes == {"200", "503", "Timeout", "RequestException"}

\* the lines of the stream (lines 56-77): a data line with JSON, a data line
\* that does not parse, and any other line
LineKinds == {"data", "bad", "other"}

\* how the stream ends: the server closes it, or the read raises
StreamEnds == {"eof", "Timeout", "RequestException"}

\* where disconnect() returns to
AfterDisconnect == IF ufrom = "connect" THEN "start" ELSE "idle"

\* connect, lines 20-25: `if self.thread and self.thread.is_alive()`
connect_call ==
    /\ upc = "idle"
    /\ Unborn # {}
    /\ ufrom' = "connect"
    /\ upc' = IF thread # 0 /\ IsAlive(thread) THEN "disconnect" ELSE "start"
    /\ UNCHANGED <<notClientVars, now, running, connected, thread, lpc, lgot>>

\* connect, lines 27-30: running = True, a new daemon Thread on _listen, started
connect_start ==
    /\ upc = "start"
    /\ running' = TRUE
    /\ LET t == CHOOSE u \in Unborn : \A v \in Unborn : u <= v
       IN /\ thread' = t
          /\ lpc' = [lpc EXCEPT ![t] = "get"]
    /\ upc' = "idle"
    /\ UNCHANGED <<notClientVars, now, connected, lgot, ufrom>>

\* a call of disconnect() from outside
disconnect_call ==
    /\ upc = "idle"
    /\ ufrom' = "disconnect"
    /\ upc' = "disconnect"
    /\ UNCHANGED <<notClientVars, now, running, connected, thread, lpc, lgot>>

\* disconnect, lines 105-108: `if self.running`: running = False
disconnect_stop ==
    /\ upc = "disconnect"
    /\ IF running
       THEN /\ running' = FALSE
            /\ upc' = IF thread # 0 THEN "join" ELSE "end"
       ELSE /\ upc' = AfterDisconnect
            /\ UNCHANGED running
    /\ UNCHANGED <<notClientVars, now, connected, thread, lpc, lgot, ufrom>>

\* line 109: self.thread.join(timeout=1) returns, the thread ended or not
disconnect_join ==
    /\ upc = "join"
    /\ upc' = "end"
    /\ UNCHANGED <<notClientVars, now, running, connected, thread, lpc, lgot, ufrom>>

\* lines 110-111: connected = False, the listeners are told, disconnect returns
disconnect_end ==
    /\ upc = "end"
    /\ connected' = FALSE
    /\ upc' = AfterDisconnect
    /\ UNCHANGED <<notClientVars, now, running, thread, lpc, lgot, ufrom>>

\* _listen, lines 42-50 and 78-91: session.get answers or raises
listen_get(t, outcome) ==
    /\ lpc[t] = "get"
    /\ IF outcome = "200"
       THEN /\ connected' = TRUE
            /\ lpc' = [lpc EXCEPT ![t] = "read"]
       ELSE /\ connected' = IF outcome = "503" THEN connected ELSE FALSE
            /\ lpc' = [lpc EXCEPT ![t] = "finally"]
    /\ UNCHANGED <<notClientVars, now, running, thread, lgot, upc, ufrom>>

\* lines 56-77: iter_lines gives a line; `if not self.running: break`, else a
\* data line with JSON is notified as `message`
listen_line(t, kind) ==
    /\ lpc[t] = "read"
    /\ kind = "data" /\ running => lgot[t] < MaxLines
    /\ IF ~running
       THEN /\ lpc' = [lpc EXCEPT ![t] = "finally"]
            /\ UNCHANGED lgot
       ELSE /\ lgot' = [lgot EXCEPT ![t] = IF kind = "data" THEN @ + 1 ELSE @]
            /\ UNCHANGED lpc
    /\ UNCHANGED <<notClientVars, now, running, connected, thread, upc, ufrom>>

\* line 56 and lines 78-91: the stream ends, or reading it raises
listen_end(t, how) ==
    /\ lpc[t] = "read"
    /\ connected' = IF how = "eof" THEN connected ELSE FALSE
    /\ lpc' = [lpc EXCEPT ![t] = "finally"]
    /\ UNCHANGED <<notClientVars, now, running, thread, lgot, upc, ufrom>>

\* lines 92-98: finally: connected = False, the listeners are told, and
\* `if self.running` the thread sleeps 5 seconds; else _listen returns
listen_finally(t) ==
    /\ lpc[t] = "finally"
    /\ connected' = FALSE
    /\ lpc' = [lpc EXCEPT ![t] = IF running THEN "sleep" ELSE "dead"]
    /\ UNCHANGED <<notClientVars, now, running, thread, lgot, upc, ufrom>>

\* line 99: after the sleep, `if self.running` again
listen_wake(t) ==
    /\ lpc[t] = "sleep"
    /\ lpc' = [lpc EXCEPT ![t] = IF running THEN "again" ELSE "dead"]
    /\ UNCHANGED <<notClientVars, now, running, connected, thread, lgot, upc, ufrom>>

\* lines 100-101: self._listen() in the same thread, up to its session.get
listen_again(t) ==
    /\ lpc[t] = "again"
    /\ lpc' = [lpc EXCEPT ![t] = "get"]
    /\ UNCHANGED <<notClientVars, now, running, connected, thread, lgot, upc, ufrom>>

\* SSEClient.__init__, lines 13-18
InitClient ==
    /\ running = FALSE /\ connected = FALSE /\ thread = 0
    /\ lpc = [t \in Listeners |-> "unborn"]
    /\ lgot = [t \in Listeners |-> 0]
    /\ upc = "idle" /\ ufrom = ""

\* the calls of connect() and disconnect() and the steps of the listener threads
NextClient ==
    \/ connect_call
    \/ connect_start
    \/ disconnect_call
    \/ disconnect_stop
    \/ disconnect_join
    \/ disconnect_end
    \/ \E t \in Listeners, o \in GetOutcomes : listen_get(t, o)
    \/ \E t \in Listeners, k \in LineKinds : listen_line(t, k)
    \/ \E t \in Listeners, e \in StreamEnds : listen_end(t, e)
    \/ \E t \in Listeners : listen_finally(t)
    \/ \E t \in Listeners : listen_wake(t)
    \/ \E t \in Listeners : listen_again(t)

\* the state after start-up: nothing created, nobody connected, no call made
Init == InitApp /\ InitReg /\ InitDisp /\ InitNotif /\ InitProto /\ InitRoute /\ InitClient

\* SpecClient: one SSEClient, the thread that calls connect() and disconnect(),
\* and the listener threads
SpecClient == Init /\ [][NextClient]_vars

\* the worker threads are interchangeable: a request goes to the first free one
FirstFree(h) == hpc[h] = "idle" /\ \A g \in Handlers : g < h => hpc[g] # "idle"

\* requests with bodies B, served by the worker threads H
NextHandlers(H, B) ==
    \/ \E h \in H, k \in SessionKeys : FirstFree(h) /\ handle_request_check(h, k)
    \/ \E h \in H : handle_request_fetch(h)
    \/ \E h \in H, b \in B : handle_request_touch(h, b)
    \/ \E h \in H : handle_request_track(h)
    \/ \E h \in H, o \in BackendOutcomes : handle_request_reply(h, o)
    \/ \E h \in H : handle_request_ok_check(h)
    \/ \E h \in H : handle_request_ok_del(h)
    \/ \E h \in H : handle_request_ok_notify(h)
    \/ \E h \in H : handle_request_exc_check(h)
    \/ \E h \in H : handle_request_exc_del(h)
    \/ \E h \in H : handle_request_exc_notify(h)
    \/ \E h \in H : handle_request_return(h)

\* session create and close
NextTable(maxSessions) ==
    \/ \E c \in ClientIds \cup {NoClientId} : nextSid <= maxSessions /\ create_session(c)
    \/ \E k \in SessionKeys : close_session_check(k)
    \/ close_session_del

\* the event streams
NextStreams ==
    \/ \E st \in Streams, c \in ClientIds : stream_open(st, c)
    \/ \E st \in Streams : stream_register(st)
    \/ \E st \in Streams : stream_ping(st)
    \/ \E st \in Streams : stream_close(st)

\* GET /events/<client_id> from several connections at a time
NextAllStreams ==
    \/ \E st \in AllStreams, c \in ClientIds : stream_open(st, c)
    \/ \E st \in AllStreams : stream_register(st)
    \/ \E st \in AllStreams : stream_ping(st)
    \/ \E st \in AllStreams : stream_close(st)

\* the idle sweep and the clock
NextSweep ==
    \/ Tick /\ UNCHANGED <<appVars, regVars, dispVars, notifVars, protoVars, routeVars, clientVars>>
    \/ cleanup_sessions_wake
    \/ cleanup_sessions_iter
    \/ cleanup_sessions_del
    \/ cleanup_sessions_notify

\* SpecApp: request handlers running concurrently against one session, which
\* close_session removes at any moment (what the sweep's del does to the table)
NextApp ==
    NextHandlers(Handlers, RequestBodies) \/ NextTable(MaxSessions - 1) \/ NextStreams

SpecApp == Init /\ [][NextApp]_vars

\* SpecSweep: the idle sweep and the clock, with sessions created, closed and
\* used by one request handler concurrently; its requests are well-formed
SweepBodies ==
    {b \in RequestBodies : b.type = "tool-execution" /\ {"id", "payload"} \subseteq b.keys}

NextSweepApp == NextSweep \/ NextTable(MaxSessions) \/ NextHandlers({1}, SweepBodies)

SpecSweep == Init /\ [][NextSweepApp]_vars

\* SpecReg: SessionManager and Session of session.py, called one call at a time
SpecReg == Init /\ [][NextReg]_vars

\* SpecDispatch: one RequestDispatcher, one call of dispatch at a time
SpecDispatch == Init /\ [][NextDisp]_vars

\* SpecStreams: the event streams of app.py, overlapping
SpecStreams == Init /\ [][NextAllStreams]_vars

\* SpecRoute: the routing step of dispatch, for two requests in a row
SpecRoute == Init /\ [][NextRoute]_vars

\* SpecProto: calls of MCPProtocol.validate_message
SpecProto == Init /\ [][NextProto]_vars

\* SpecPoll: one NotificationsHandler, one thread that registers, unregisters
\* and sends, and threads that poll get_client_notifications
SpecPoll == Init /\ [][NextPoll]_vars

\* SpecRead: SpecPoll with the calls of get_client_count and is_client_connected
SpecRead == Init /\ [][NextRead]_vars

\* SpecPollSeq: the same calls made one at a time
SpecPollSeq == Init /\ [][NextPollSeq]_vars

\* SpecNotif: one NotificationsHandler called from concurrent threads, and
\* clients that go away
SpecNotif == Init /\ [][NextNotif]_vars

(* ======================= session_manager/app.py ======================== *)
\* a handler holds an in-flight record from line 114 to its del
InFlightPcs == {"await", "ok_check", "ok_del", "exc_check", "exc_del"}

\* the handlers on the session dict s that have tracked and not yet removed
InFlight(s) == {h \in Handlers : hses[h] = s /\ hpc[h] \in InFlightPcs}

\* C1: for a live session on which no two overlapping requests shared a request
\* id, the activeRequestCount that GET /sessions/<id> reports equals the number
\* of requests in flight on it: N while N handlers await their backend, 0 once
\* every handler has removed its record, however the requests ended and however
\* the handlers interleaved.
C1_InFlightAccounting ==
    \A k \in DOMAIN sessions :
        sessions[k] \notin dup =>
            get_session(k).activeRequestCount = Cardinality(InFlight(sessions[k]))

\* C1 witness: every handler awaits its backend on the same live session, and
\* the count is the number of handlers
C1_Witness_Peak ==
    \E k \in DOMAIN sessions :
        /\ sessions[k] \notin dup
        /\ \A h \in Handlers : hpc[h] = "await" /\ hses[h] = sessions[k]
        /\ get_session(k).activeRequestCount = MaxHandlers

\* C1, the other end: two requests on one live session have ended, one with 200
\* and one with 500, and the count is back to 0
C1_Witness_Drained ==
    \E k \in DOMAIN sessions : \E g, h \in Handlers :
        /\ sessions[k] \notin dup
        /\ hpc[g] = "return" /\ hses[g] = sessions[k] /\ hres[g].status = 200
        /\ hpc[h] = "return" /\ hses[h] = sessions[k] /\ hres[h].status = 500
        /\ Len(hnotes[h]) = 1
        /\ get_session(k).activeRequestCount = 0

\* the in-flight record of handler h is in its session's activeRequests
OwnRecordPresent(h) ==
    /\ hses[h] # 0 /\ hrid[h] # 0
    /\ hrid[h] \in DOMAIN heap[hses[h]].activeRequests
    /\ heap[hses[h]].activeRequests[hrid[h]].request = h

\* C2: when a handler that tracked its request returns, its in-flight record is
\* gone, on the success path and on every failure path; an entry under its
\* request id, if any, is the record of another handler that is still in flight.
C2_RecordRemovedAtReturn ==
    \A h \in Handlers :
        (hpc[h] = "return" /\ hrid[h] # 0) =>
            /\ ~OwnRecordPresent(h)
            /\ hrid[h] \in DOMAIN heap[hses[h]].activeRequests =>
                  heap[hses[h]].activeRequests[hrid[h]].request \in InFlight(hses[h])

\* C2 witness: a handler returns 500 after a failed dispatch, having notified,
\* with no entry for its request id left
C2_Witness ==
    \E h \in Handlers :
        /\ hpc[h] = "return" /\ hrid[h] # 0 /\ hout[h] = "ValueError"
        /\ hres[h].status = 500 /\ Len(hnotes[h]) = 1
        /\ hrid[h] \notin DOMAIN heap[hses[h]].activeRequests

\* the notification a resolved dispatch calls for
ExpectedNote(h) ==
    [clientId |-> heap[hses[h]].clientId,
     type |-> IF hout[h] = "response" THEN "request-completed" ELSE "request-error",
     requestId |-> hrid[h], sessionId |-> hsid[h]]

\* C3: a request whose dispatch resolved has, when its handler returns, called
\* send_notification exactly once, for the session's client: request-completed
\* if dispatch returned a response, request-error if it raised.
C3_ExactlyOneNotification ==
    \A h \in Handlers :
        (hpc[h] = "return" /\ hout[h] # "") =>
            /\ Len(hnotes[h]) = 1
            /\ \A f \in DOMAIN ExpectedNote(h) : hnotes[h][1][f] = ExpectedNote(h)[f]

\* C3 without two overlapping requests of one id on the session: then it holds
C3_ExactlyOneNotificationDistinctIds ==
    \A h \in Handlers :
        (hpc[h] = "return" /\ hout[h] # "" /\ hses[h] \notin dup) =>
            /\ Len(hnotes[h]) = 1
            /\ \A f \in DOMAIN ExpectedNote(h) : hnotes[h][1][f] = ExpectedNote(h)[f]

(* ====================== session_manager/session.py ===================== *)
\* a step that is the call `op` of SessionManager or Session
RegCall(op) == regOp'.op = op /\ now' = now /\ <<mgr, regOp>>' # <<mgr, regOp>>

\* C4: one run of cleanup_inactive_sessions removes exactly the sessions whose
\* idle time now - last_activity is strictly greater than the threshold, keeps
\* the sessions idle for the threshold or less as they were, and returns the
\* number removed.
C4_IdleSweepBoundary ==
    [][(regOp'.op = "cleanup_inactive_sessions" /\ now' = now) =>
          LET threshold == regOp'.arg[1]
              retained == {k \in DOMAIN mgr : now - mgr[k].last_activity <= threshold}
          IN /\ DOMAIN mgr' = retained
             /\ \A k \in retained : mgr'[k] = mgr[k]
             /\ regOp'.ret = Cardinality(DOMAIN mgr \ retained)]_vars

\* C4 witness: a sweep has just removed a session, and a session idle for
\* exactly the threshold is still there
C4_Witness ==
    /\ regOp.op = "cleanup_inactive_sessions" /\ regOp.ret >= 1
    /\ \E k \in DOMAIN mgr : now - mgr[k].last_activity = IdleThreshold

\* C4 in app.py: the sweep thread marks the session it examines for removal
\* exactly when the time it read on waking exceeds the session's lastActivity by
\* more than the threshold
C4_AppSweepDecision ==
    [][(spc = "iter" /\ slist # <<>> /\ slist' = Tail(slist) /\ spc' \in {"iter", "del"}) =>
          LET session == heap[sessions[Head(slist)]]
          IN (spc' = "del") <=>
                 (snow - fromisoformat(session.lastActivity) > IdleThreshold)]_vars

\* C6: create_session(c) with a non-empty c returns an id under which
\* get_session finds a session of client c with no active request; after
\* close_session(id), get_session(id) finds nothing; either call leaves every
\* other session of the table as it was.
C6_SessionRoundTrip ==
    [][/\ (RegCall("create_session") /\ regOp'.arg[1] # NoClientId) =>
            LET session == SessionManager_get(mgr', regOp'.ret)
            IN /\ session # None
               /\ session.id = regOp'.ret
               /\ session.client_id = regOp'.arg[1]
               /\ Cardinality(DOMAIN session.active_requests) = 0
               /\ regOp'.ret \notin DOMAIN mgr
               /\ \A k \in DOMAIN mgr : SessionManager_get(mgr', k) = mgr[k]
               /\ DOMAIN mgr' = DOMAIN mgr \cup {regOp'.ret}
       /\ (regOp'.op = "close_session" /\ now' = now) =>
            /\ SessionManager_get(mgr', regOp'.arg[1]) = None
            /\ regOp'.ret = (IF regOp'.arg[1] \in DOMAIN mgr THEN 1 ELSE 0)
            /\ \A k \in DOMAIN mgr \ {regOp'.arg[1]} : SessionManager_get(mgr', k) = mgr[k]
            /\ DOMAIN mgr' = DOMAIN mgr \ {regOp'.arg[1]}]_vars

\* C6 witness: a session was created and closed again while another session
\* stays in the table
C6_Witness ==
    /\ regOp.op = "close_session" /\ regOp.ret = 1
    /\ regOp.arg[1] \notin DOMAIN mgr
    /\ DOMAIN mgr # {}

(* ================= session_manager/app.py: the idle sweep ============== *)
\* the session-expired notifications sent for session id k
ExpiredNotes(k) ==
    {i \in DOMAIN expiredLog :
        expiredLog[i].type = "session-expired" /\ expiredLog[i].sessionId = k}

\* C5: once the sweep has removed a session and notified, exactly one
\* session-expired notification names that session's id, and it went to the
\* clientId of that session; no session-expired notification names a session
\* that is still in the table or that close_session removed.
C5_ExpiredNotification ==
    \A k \in SessionKeys :
        IF closedBy[k] = "sweep" /\ ~(spc = "notify" /\ scur = k)
        THEN /\ Cardinality(ExpiredNotes(k)) = 1
             /\ \A i \in ExpiredNotes(k) : expiredLog[i].clientId = heap[k].clientId
        ELSE ExpiredNotes(k) = {}

\* C5 witness: the sweep has removed and notified one session while another one,
\* closed by DELETE or still in the table, has no notification
C5_Witness ==
    \E k, j \in SessionKeys :
        /\ closedBy[k] = "sweep" /\ Cardinality(ExpiredNotes(k)) = 1
        /\ j # k /\ j < nextSid /\ closedBy[j] # "sweep" /\ ExpiredNotes(j) = {}

(* ==================== session_manager/dispatcher.py ==================== *)
\* the backend id the routing table documents for each declared type, and the
\* backend id of its `default` entry
DocumentedBackend(type) ==
    CASE type = "resource-request" -> "1"
      [] type = "sampling-task" -> "2"
      [] type = "tool-execution" -> "3"
      [] type = "database-query" -> "4"
      [] type = "internet-search" -> "5"
      [] type = "root-operation" -> "6"
      [] type = "prompt-management" -> "7"
      [] type = "llm-response" -> "1"
      [] OTHER -> "1"

\* the call at hand is of a valid request whose type is a string or null and
\* whose backend has an address
Forwardable ==
    /\ validate_message(dreq, "request")
    /\ dreq.type # UnhashableType
    /\ DictGet(disp_urls, DocumentedBackend(dreq.type), "") # ""

\* C7: once dispatch has handled a valid request past its routing step, it has
\* made exactly one POST, to the backend id the table documents for the request's
\* type when the type is declared and to the backend id of the `default` entry
\* when it is not; and it POSTs nothing to any other backend.
C7_Routing ==
    dpc \in {"post", "done"} =>
        /\ Forwardable =>
              /\ Len(dposts) = 1
              /\ dposts[1].server_id = DocumentedBackend(dreq.type)
              /\ dposts[1].url = disp_urls[DocumentedBackend(dreq.type)]
        /\ \A i \in DOMAIN dposts :
              Forwardable /\ dposts[i].server_id = DocumentedBackend(dreq.type)

\* C7 witness: a request of a declared type routed to a backend other than the
\* default one
C7_Witness ==
    /\ dpc = "post"
    /\ dreq.type = "prompt-management"
    /\ dposts = <<[server_id |-> "7", url |-> "http://localhost:5007", json |-> dreq]>>

\* C7 witness: a request of an undeclared type routed to the default backend
C7_Witness_Default ==
    /\ dpc = "post"
    /\ dreq.type = "file-upload"
    /\ dposts = <<[server_id |-> "1", url |-> "http://localhost:5001", json |-> dreq]>>

(* =================== session_manager/notifications.py ================== *)
\* thread t has finished a call of method op
Returned(t, op) == frames[t].pc = "done" /\ frames[t].call.op = op

\* C8: a call of send_notification for a client id that was not registered when
\* the call took the lock returns False (it raises nothing), and the client map,
\* every queue and everything written to every response object are at its return
\* what they were.
C8_UnregisteredSend ==
    \A t \in Threads :
        (Returned(t, "send_notification")
            /\ frames[t].call.client \notin Range(frames[t].snap.clients))
        => /\ frames[t].ret = "False"
           /\ frames[t].post = frames[t].snap

\* C8 witness: such a call has returned False while another client is registered
\* and has a notification queued and written
C8_Witness ==
    \E t \in Threads, d \in NotifClients :
        /\ Returned(t, "send_notification")
        /\ frames[t].ret = "False"
        /\ frames[t].call.client \notin Range(frames[t].snap.clients)
        /\ d \in Range(frames[t].snap.clients)
        /\ d \in DOMAIN frames[t].snap.queues
        /\ Len(frames[t].snap.queues[d]) > 0
        /\ Len(frames[t].snap.written[d]) > 1

\* the queues of the clients other than c
OtherQueues(qs, c) == [d \in DOMAIN qs \ {c} |-> qs[d]]

\* C9: a call of send_notification whose write to the client's response object
\* failed goes on to return False with that client unregistered (neither in the
\* client map nor with a queue) and with the registration and the queue of every
\* other client as they were: at no moment is its thread unable to take a step
\* before it has returned so.
C9_FailedSendUnregisters ==
    \A t \in Threads :
        (frames[t].call.op = "send_notification" /\ frames[t].fail # {})
        => \/ /\ frames[t].pc # "done"
              /\ ENABLED ThreadStep(t)
           \/ /\ frames[t].pc = "done"
              /\ frames[t].ret = "False"
              /\ frames[t].call.client \notin Range(frames[t].post.clients)
              /\ frames[t].call.client \notin DOMAIN frames[t].post.queues
              /\ frames[t].post.clients =
                     SeqDel(frames[t].snap.clients, frames[t].call.client)
              /\ OtherQueues(frames[t].post.queues, frames[t].call.client) =
                     OtherQueues(frames[t].snap.queues, frames[t].call.client)

\* the state C9 is about: the write of a send_notification has failed
C9_Witness ==
    \E t \in Threads :
        /\ frames[t].call.op = "send_notification"
        /\ frames[t].fail = {frames[t].call.client}
        /\ Len(clients) > 1

\* C10: a call of broadcast_notification goes on to return the number of clients
\* it wrote to, having attempted every client that was registered when it took
\* the lock, with exactly the clients whose write failed unregistered and the
\* notification written to every other one: at no moment is its thread unable to
\* take a step before it has returned so.
C10_BroadcastReachesAll ==
    \A t \in Threads :
        frames[t].call.op = "broadcast_notification"
        => \/ /\ frames[t].pc # "done"
              /\ ENABLED ThreadStep(t)
           \/ /\ frames[t].pc = "done"
              /\ frames[t].ret = "sent_count"
              /\ frames[t].wrote \cup frames[t].fail = Range(frames[t].snap.clients)
              /\ frames[t].wrote \cap frames[t].fail = {}
              /\ frames[t].sent_count = Cardinality(frames[t].wrote)
              /\ frames[t].post.clients = frames[t].snap.clients
                     => frames[t].fail = {}
              /\ Range(frames[t].post.clients) =
                     Range(frames[t].snap.clients) \ frames[t].fail
              /\ \A c \in frames[t].wrote :
                     frames[t].post.written[c] =
                         Append(frames[t].snap.written[c], frames[t].call.note)

\* the state C10 is about: three clients were registered when the broadcast
\* began, and the write to one of them has failed
C10_Witness ==
    \E t \in Threads :
        /\ frames[t].call.op = "broadcast_notification"
        /\ Len(frames[t].snap.clients) = 3
        /\ Cardinality(frames[t].fail) = 1

\* a broadcast without a failing client returns the number of registered clients
C10_Witness_AllDelivered ==
    \E t \in Threads :
        /\ Returned(t, "broadcast_notification")
        /\ frames[t].sent_count = 3
        /\ frames[t].fail = {}

\* thread t is inside a call of send_notification or broadcast_notification,
\* the calls it makes in turn included
Delivering(t) ==
    /\ frames[t].call.op \in {"send_notification", "broadcast_notification"}
    /\ frames[t].pc # "done"

\* C11: a thread inside a call of send_notification or broadcast_notification can
\* always take its next step, whatever became of the channel writes, and the
\* lock is held only by a thread that can take its next step: no call is stuck
\* on the lock, and no lock is left held with nobody to release it.
C11_DeliveryNeverStuck ==
    /\ \A t \in Threads : Delivering(t) => ENABLED ThreadStep(t)
    /\ \A t \in Threads : lock = t => ENABLED ThreadStep(t)

\* the state C11 is about: a delivery has failed, its thread waits for the lock
\* it holds itself, and a call of unregister_client from another thread waits
\* for that lock too
C11_Witness ==
    \E t, u \in Threads :
        /\ t # u
        /\ Delivering(t) /\ frames[t].fail # {} /\ lock = t
        /\ frames[t].pc = "u_acquire"
        /\ frames[u].pc = "u_acquire" /\ frames[u].caller = ""

\* C11, the other half: once a failed delivery waits for the lock, the lock is
\* never released again
C11_LockHeldForGood ==
    [][\A t \in Threads :
          (lock = t /\ frames[t].pc = "u_acquire") =>
              (lock' = t /\ frames'[t].pc = "u_acquire")]_vars

(* ========================= common/protocol.py ========================== *)
\* the fields the envelope of each kind must have besides id and timestamp
RequiredFields(kind) ==
    CASE kind = "request" -> {"type", "payload"}
      [] kind = "response" -> {"requestId", "status"}
      [] kind = "notification" -> {"type", "data"}
      [] OTHER -> {}

\* C12: validate_message returns True exactly when the message is a dict that
\* has id and timestamp and the fields required of its kind, the kind being
\* request, response or notification; the fields it does not look for
\* (metadata, sessionId) make no difference to the result.
C12_Validation ==
    vcall.message_type # "" =>
        /\ vcall.ret <=>
              /\ vcall.message.shape = "object"
              /\ vcall.message_type \in {"request", "response", "notification"}
              /\ {"id", "timestamp"} \subseteq vcall.message.keys
              /\ RequiredFields(vcall.message_type) \subseteq vcall.message.keys
        /\ \A extra \in SUBSET {"metadata", "sessionId"} :
              validate_message([vcall.message EXCEPT !.keys = @ \ extra],
                               vcall.message_type) = vcall.ret

\* C12 witness: a request with every required field but payload, and with
\* fields beyond the required ones, is rejected
C12_Witness ==
    /\ vcall.message_type = "request"
    /\ vcall.message.keys = {"id", "timestamp", "type", "metadata", "data"}
    /\ vcall.ret = FALSE

\* C12 witness: a well-formed request with a field beyond the required ones is
\* accepted
C12_Witness_Accepted ==
    /\ vcall.message_type = "request"
    /\ vcall.message.keys = {"id", "timestamp", "type", "payload", "metadata"}
    /\ vcall.ret = TRUE

(* =============== session_manager/app.py: rejected requests ============== *)
\* C13: a request whose envelope is invalid, posted to an existing session, is
\* answered 400 before anything is changed: reading it leaves lastActivity as it
\* was, and handing it to the dispatcher leaves activeRequests as it was (no
\* in-flight record exists for it at any time) and sets the response to 400.
C13_InvalidEnvelopeRejected ==
    [][\A h \in Handlers :
          /\ (/\ hpc[h] = "touch" /\ hpc'[h] = "track"
              /\ ~validate_message(hbody'[h], "request")) => heap' = heap
          /\ (/\ hpc[h] = "track" /\ hpc'[h] # "track"
              /\ ~validate_message(hbody[h], "request"))
                 => heap' = heap /\ hres'[h].status = 400]_vars

\* C13 witness: the dispatcher has refused an invalid envelope, nothing was
\* posted, and the session holds an in-flight record for the request
C13_Witness ==
    \E h \in Handlers :
        /\ hpc[h] = "exc_check" /\ hout[h] = "ValueError" /\ hposts[h] = <<>>
        /\ hses[h] \in DOMAIN heap
        /\ hrid[h] \in DOMAIN heap[hses[h]].activeRequests

\* what the code does with an invalid envelope: the record is inserted, nothing
\* is posted to a backend, and the except branch is entered
C13_InvalidEnvelopeNotForwarded ==
    [][\A h \in Handlers :
          (/\ hpc[h] = "track" /\ hpc'[h] # "track"
           /\ ~validate_message(hbody[h], "request"))
              => /\ hposts' = hposts
                 /\ hpc'[h] = "exc_check" /\ hout'[h] = "ValueError"
                 /\ hrid[h] \in DOMAIN heap'[hses[h]].activeRequests]_vars

\* C14: an operation on a session id that is not in the table answers 404 and
\* changes nothing. GET answers 404; a request posted to the id is answered 404
\* at once, with no session created, no in-flight record, nothing posted to a
\* backend and no notification; DELETE goes on to the removal only for an id that
\* is in the table, and otherwise answers 404 and leaves the table as it was.
C14_UnknownSession ==
    [][/\ \A k \in SessionKeys \ DOMAIN sessions : get_session(k).status = 404
       /\ \A h \in Handlers :
             (/\ hpc[h] = "idle" /\ hpc'[h] # "idle"
              /\ hsid'[h] \notin DOMAIN sessions)
                 => /\ hpc'[h] = "return"
                    /\ hres'[h] = [status |-> 404, body |-> "Session not found"]
                    /\ UNCHANGED <<tableVars, hposts, hnotes, expiredLog>>
       /\ (cpc = "idle" /\ <<cpc, cres, csid>>' # <<cpc, cres, csid>>)
             => IF cpc' = "del"
                THEN csid' \in DOMAIN sessions
                ELSE cres' = 404 /\ UNCHANGED <<tableVars, hposts, hnotes, expiredLog>>
      ]_vars

\* C14 witness: a request posted to an id that is not in the table has been
\* answered 404, a DELETE has been answered 404, and another session exists
C14_Witness ==
    \E h \in Handlers :
        /\ hpc[h] = "return" /\ hres[h].status = 404
        /\ hsid[h] \notin DOMAIN sessions
        /\ cres = 404 /\ cpc = "idle"
        /\ DOMAIN sessions # {}

\* C14, session.py: get_session of an absent id gives None and close_session of
\* an absent id returns False; neither changes the table
C14_RegistryUnknownSession ==
    [][\A k \in SessionKeys \ DOMAIN mgr :
          /\ (regOp'.op = "get_session" /\ regOp'.arg = <<k>>)
                => regOp'.ret = None.id /\ mgr' = mgr
          /\ (regOp'.op = "close_session" /\ regOp'.arg = <<k>> /\ regOp' # regOp)
                => regOp'.ret = 0 /\ mgr' = mgr]_vars

\* the except branch of handle_request, entered because dispatch raised
FailedPcs == {"exc_check", "exc_del", "exc_notify"}

DispatchFailed(h) == hpc[h] \in FailedPcs /\ hout[h] \in {"ValueError", "TypeError"}

\* C15: a request whose dispatch failed is answered 500 with the body
\* {error: 'Failed to process request', message}, and answering it leaves the
\* session table as it was.
C15_FailureAnswer ==
    [][\A h \in Handlers :
          (DispatchFailed(h) /\ hpc'[h] = "return")
             => /\ hres'[h] = [status |-> 500, body |-> "Failed to process request"]
                /\ sessions' = sessions]_vars

\* C15 witness: a request whose dispatch failed is about to be answered with
\* the 500 of an unhandled exception, and its session is still in the table
C15_Witness ==
    \E h \in Handlers :
        /\ hpc[h] = "return" /\ hout[h] \in {"ValueError", "TypeError"}
        /\ hres[h] = [status |-> 500, body |-> "unhandled KeyError"]
        /\ hsid[h] \in DOMAIN sessions /\ sessions[hsid[h]] = hses[h]

\* what does hold: no step of handle_request removes or replaces a session or
\* changes its id or clientId, whatever the outcome of the dispatch
C15_SessionSurvivesFailure ==
    [][\A h \in Handlers :
          hpc'[h] # hpc[h]
             => /\ sessions' = sessions
                /\ DOMAIN heap' = DOMAIN heap
                /\ \A k \in DOMAIN heap :
                      heap'[k].id = heap[k].id /\ heap'[k].clientId = heap[k].clientId]_vars

(* ========================== creating a session ========================= *)
\* C16, session.py: create_session with an empty client id fails and adds no
\* session; with a non-empty client id it adds exactly one session, under a
\* fresh id, with no active requests and created = last_activity = now.
C16_RegistryCreateSession ==
    [][(regOp'.op = "create_session" /\ regOp' # regOp)
          => IF regOp'.arg = <<NoClientId>>
             THEN mgr' = mgr
             ELSE LET id == regOp'.ret
                  IN /\ id \notin DOMAIN mgr
                     /\ DOMAIN mgr' = DOMAIN mgr \cup {id}
                     /\ \A k \in DOMAIN mgr : mgr'[k] = mgr[k]
                     /\ mgr'[id].id = id
                     /\ <<mgr'[id].client_id>> = regOp'.arg
                     /\ mgr'[id].active_requests = EmptyDict
                     /\ mgr'[id].created = now /\ mgr'[id].last_activity = now]_vars

\* C16 witness: SessionManager.create_session has returned a session whose
\* client id is empty, and the session is in the table
C16_Witness ==
    /\ regOp.op = "create_session" /\ regOp.arg = <<NoClientId>>
    /\ regOp.ret \in DOMAIN mgr
    /\ mgr[regOp.ret].client_id = NoClientId

\* C16, app.py: POST /sessions answers 400 and adds nothing when clientId is
\* missing or empty, and otherwise answers 201 with the id of the one session
\* it added
C16_HttpCreateSession ==
    [][(createRes' # createRes \/ nextSid' # nextSid)
          => IF createRes'.status = 400
             THEN UNCHANGED tableVars
             ELSE LET id == createRes'.sessionId
                  IN /\ createRes'.status = 201
                     /\ id \notin DOMAIN sessions /\ id \notin DOMAIN heap
                     /\ DOMAIN sessions' = DOMAIN sessions \cup {id}
                     /\ \A k \in DOMAIN sessions : sessions'[k] = sessions[k]
                     /\ LET session == heap'[sessions'[id]]
                        IN /\ session.id = id
                           /\ session.clientId \in ClientIds
                           /\ session.activeRequests = EmptyDict
                           /\ session.created = isoformat(now)
                           /\ session.lastActivity = isoformat(now)]_vars

(* ======================= the event stream of a client ================== *)
\* a step of the generator of stream st, or the client of st connecting or
\* going away
StreamStep(st) ==
    \/ \E c \in ClientIds : stream_open(st, c)
    \/ stream_register(st)
    \/ stream_ping(st)
    \/ stream_close(st)

\* the notifications that send_notification has just accepted (returned True
\* for) in a handler that has not returned yet
Accepted(h) == {hnotes[h][i] : i \in {j \in DOMAIN hnotes[h] : hnotes[h][j].delivered}}

\* C17: the first event of a stream is `connected`, and a notification that
\* send_notification accepted for a client whose stream is open reaches that
\* stream: it has been written to it or a step of the stream can write it.
C17_AcceptedReachesStream ==
    /\ \A st \in Streams : stout[st] # <<>> => Head(stout[st]) = "connected"
    /\ \A h \in Handlers, st \in Streams :
          \A n \in Accepted(h) :
              (stpc[st] = "streaming" /\ stclient[st] = n.clientId)
                 => \/ n.type \in Range(stout[st])
                    \/ ENABLED (StreamStep(st) /\ n.type \in Range(stout'[st]))

\* C17 witness: send_notification accepted a request-completed notification
\* for a client whose stream is open and has since yielded a ping
C17_Witness ==
    \E h \in Handlers, st \in Streams :
        \E n \in Accepted(h) :
            /\ n.type = "request-completed"
            /\ stpc[st] = "streaming" /\ stclient[st] = n.clientId
            /\ stout[st] = <<"connected", "ping">>

\* what the stream does yield: `connected`, then pings, and nothing else
C17_StreamYieldsConnectedAndPings ==
    \A st \in Streams :
        /\ stpc[st] = "idle" <=> stout[st] = <<>>
        /\ stout[st] # <<>> => Head(stout[st]) = "connected"
        /\ \A i \in DOMAIN stout[st] : i > 1 => stout[st][i] = "ping"

(* ==================== session_manager/dispatcher.py ==================== *)
\* the backend answered the POST with status 200 and a JSON object
AnsweredOk == dans.error = "" /\ dans.status_code = 200 /\ dans.body.shape = "object"

\* C18: when the backend answers the forwarded request with success, dispatch
\* returns the backend's response envelope as the backend sent it (same keys,
\* same requestId, same status), and the body it POSTed is the envelope it was
\* called with.
C18_ResponseUnchanged ==
    /\ dpc \in {"post", "done"} => \A i \in DOMAIN dposts : dposts[i].json = dreq
    /\ (dpc = "done" /\ dposts # <<>> /\ AnsweredOk)
          => /\ dret = "response"
             /\ dout.value = dans.body

\* C18 witness: the backend answered with the envelope of another request, and
\* dispatch returned it under that requestId
C18_Witness ==
    /\ dpc = "done" /\ AnsweredOk
    /\ dreq.id = 1 /\ dans.body.requestId = 2 /\ dans.body.status = "error"
    /\ dout.value.requestId = 2 /\ dout.value.status = "error"
    /\ dposts[1].json = dreq

\* the call at hand is of a valid request whose type is a string or null and
\* whose backend has no address: the URL is missing or empty
Unroutable ==
    /\ validate_message(dreq, "request")
    /\ dreq.type # UnhashableType
    /\ DictGet(disp_urls, DocumentedBackend(dreq.type), "") = ""

\* C19: dispatch of a valid request whose backend has no address raises the
\* error that names the backend without a URL, and POSTs nothing.
C19_NoAddress ==
    (dpc # "idle" /\ Unroutable)
       => /\ dpc = "done"
          /\ dret = "ValueError: No server URL configured"
          /\ dout.server_id = DocumentedBackend(dreq.type)
          /\ dposts = <<>>

\* C19 witness: a database query handed to a dispatcher whose database backend
\* has an empty URL
C19_Witness ==
    /\ dpc = "done" /\ dreq.type = "database-query"
    /\ validate_message(dreq, "request")
    /\ disp_urls = AppServerUrls
    /\ dret = "ValueError: No server URL configured"

\* C19 witness: a request for a backend that the configuration does not name
C19_Witness_Missing ==
    /\ dpc = "done" /\ dreq.type = "root-operation"
    /\ validate_message(dreq, "request")
    /\ "6" \notin DOMAIN disp_urls
    /\ dret = "ValueError: No server URL configured"

\* the POST failed in transport or was answered with a status outside 200..299
BackendFailed == dans.error # "" \/ dans.status_code \notin 200..299

\* C20: once the POST is over, dispatch has raised a backend error, naming the
\* backend's id and the raw error text, exactly when the transport failed or
\* the status was not 2xx; for every 2xx status (with a JSON body) it has
\* returned the backend's response.
C20_BackendError ==
    (dpc = "done" /\ dposts # <<>>)
       => /\ BackendFailed
                => /\ dret # "response"
                   /\ dout.server_id = dposts[1].server_id
                   /\ IF dans.error # "" THEN dout.cause = dans.error
                      ELSE dout.text = dans.body
          /\ (~BackendFailed /\ dans.body.shape # "malformed")
                => /\ dret = "response"
                   /\ dout.value = dans.body

\* C20 witness: the backend answered 201 with a response envelope and dispatch
\* raised
C20_Witness ==
    /\ dpc = "done" /\ dans.status_code = 201
    /\ dans.body.shape = "object" /\ "status" \in dans.body.keys
    /\ dret = "ValueError: Server returned error"

\* what the code does: it returns exactly for status 200 with a JSON body; the
\* error for another status names the backend and carries the body; the error
\* for a transport failure carries the failure's text and names no backend
C20_ErrorUnlessStatus200 ==
    (dpc = "done" /\ dposts # <<>>)
       => /\ dret = "response" <=>
                (dans.error = "" /\ dans.status_code = 200 /\ dans.body.shape # "malformed")
          /\ dret = "response" => dout.value = dans.body
          /\ (dans.error = "" /\ dans.status_code # 200)
                => dout.server_id = dposts[1].server_id /\ dout.text = dans.body
          /\ dans.error # "" => dout.cause = dans.error /\ dout.server_id = ""

(* ---------------- RequestDispatcher.check_health ---------------------- *)
\* the probe of a backend failed: it raised, or the status was not 200, or the
\* body of the 200 answer was no JSON
ProbeFailed(a) ==
    a.error # "" \/ a.status_code # 200 \/ a.body.shape = "malformed"

Registered(t) == frames[t].pc = "done" /\ frames[t].call.op = "register_client"

\* where register_client succeeded it left the client registered, with an
\* empty queue and exactly one `connected` notification on its channel
RegisteredWell(t) ==
    LET c == frames[t].call.client
        p == frames[t].post
    IN /\ c \in Range(p.clients)
       /\ c \in DOMAIN p.queues /\ p.queues[c] = <<>>
       /\ p.written[c] = <<create_notification(ConnectedId, "connected")>>

\* C22: register_client leaves the client registered, with an empty queue and
\* exactly one `connected` notification written to its channel; when that write
\* fails the client is not left registered: it has neither channel nor queue.
C22_RegisterClient ==
    \A t \in Threads :
        Registered(t) =>
            IF frames[t].ret = "None"
            THEN RegisteredWell(t)
            ELSE /\ frames[t].call.client \notin Range(frames[t].post.clients)
                 /\ frames[t].call.client \notin DOMAIN frames[t].post.queues

\* C22 witness: register_client raised out of its first write, and the client
\* is registered with the broken channel and a queue
C22_Witness ==
    \E t \in Threads :
        /\ Registered(t) /\ frames[t].ret = "raise"
        /\ frames[t].call.client \in Range(clients)
        /\ frames[t].call.client \in DOMAIN notification_queues
        /\ chan[frames[t].call.client] = "broken"
        /\ written[frames[t].call.client] = <<>>

\* what holds: a register_client that returned left the client registered
\* with an empty queue and one `connected` notification written
C22_RegisteredOnSuccess ==
    \A t \in Threads : (Registered(t) /\ frames[t].ret = "None") => RegisteredWell(t)

(* ================== notifications.py: unregister_client ================ *)
\* the dict d without the key k
Without(d, k) == [x \in DOMAIN d \ {k} |-> d[x]]

\* C23: a call of unregister_client from outside returns True or False and
\* raises nothing. For a client that was registered when the call took the lock
\* it returns True and has removed that client's channel and queue; for a client
\* that was not (a second call, or a client never registered) it returns False
\* and everything is as it was. The channels, queues and written events of the
\* other clients are never changed.
C23_UnregisterIdempotent ==
    \A t \in Threads :
        Returned(t, "unregister_client") =>
            LET c == frames[t].call.client
                s == frames[t].snap
                p == frames[t].post
            IN /\ frames[t].ret \in {"True", "False"}
               /\ frames[t].ret = "True" <=> c \in Range(s.clients)
               /\ p.clients = SelectSeq(s.clients, LAMBDA x : x # c)
               /\ p.queues = Without(s.queues, c)
               /\ p.written = s.written
               /\ frames[t].ret = "False" => p = s

\* C23 witness: unregister_client returned True for a client registered next
\* to another one, whose channel and queue are still there
C23_Witness ==
    \E t \in Threads :
        /\ Returned(t, "unregister_client") /\ frames[t].ret = "True"
        /\ Len(frames[t].snap.clients) = 2
        /\ Len(frames[t].post.clients) = 1
        /\ DOMAIN frames[t].post.queues = Range(frames[t].post.clients)

\* C23 witness: a call for a client that registered once and that an earlier
\* call removed returned False, with another client still registered
C23_Witness_Second ==
    \E t \in Threads :
        /\ Returned(t, "unregister_client") /\ frames[t].ret = "False"
        /\ frames[t].call.client = NotifClientSeq[1] /\ nseen >= 2
        /\ frames[t].post.clients = <<NotifClientSeq[2]>>

(* ============= notifications.py: get_client_notifications ============== *)
\* the number of notifications a call is to take from a queue of length n
Wanted(max_count, n) ==
    IF max_count = <<>> THEN n ELSE IF max_count[1] < n THEN max_count[1] ELSE n

\* C24: get_client_notifications returns a list: the empty one for a client
\* without a queue; every notification it takes is the oldest one of the
\* client's queue, which it removes, leaving the rest in order; it takes no more
\* than max_count; and no step of it changes another client's queue.
C24_Drain ==
    [][\A p \in Pollers :
          LET c == polls[p].client
          IN /\ (polls[p].pc # "done" /\ polls'[p].pc = "done")
                   => /\ polls'[p].ret = "list"
                      /\ polls'[p].max_count # <<>>
                            => Len(polls'[p].notifications) <= polls'[p].max_count[1]
                      /\ polls'[p].client \notin DOMAIN notification_queues
                            => polls'[p].notifications = <<>>
             /\ (polls[p].pc = "p_get" /\ polls'[p].pc = "p_test")
                   => /\ c \in DOMAIN notification_queues
                      /\ notification_queues[c] # <<>>
                      /\ polls'[p].notifications =
                            Append(polls[p].notifications, Head(notification_queues[c]))
                      /\ notification_queues' =
                            [notification_queues EXCEPT ![c] = Tail(@)]
             /\ (polls[p].pc \in {"p_fetch", "p_test"} /\ polls'[p].pc # polls[p].pc)
                   => notification_queues' = notification_queues]_vars

\* what holds of calls made one at a time: the call returns the oldest
\* min(max_count, length) notifications of the client's queue in the order in
\* which they were put (all of them for max_count None), the rest stays queued
\* in order, every other queue is as it was, and a client without a queue gets
\* the empty list
C24_DrainOneAtATime ==
    \A p \in Pollers :
        polls[p].pc = "done" =>
            LET c == polls[p].client
                s == polls[p].snap
                q == IF c \in DOMAIN s THEN s[c] ELSE <<>>
                k == Wanted(polls[p].max_count, Len(q))
            IN /\ polls[p].ret = "list"
               /\ polls[p].notifications = SubSeq(q, 1, k)
               /\ polls[p].post =
                     IF c \in DOMAIN s
                     THEN [s EXCEPT ![c] = SubSeq(q, k + 1, Len(q))]
                     ELSE s

\* C24 witness: the client's queue was deleted between the test of line 127
\* and the lookup of line 131, and the call raised KeyError
C24_Witness ==
    \E p \in Pollers :
        /\ polls[p].pc = "done" /\ polls[p].ret = "KeyError"
        /\ polls[p].client \in DOMAIN polls[p].snap
        /\ polls[p].client \notin DOMAIN notification_queues

\* C24 witness: a call that no other call overlapped took the older of two
\* queued notifications and left the newer one
C24_Witness_Oldest ==
    \E p \in Pollers :
        /\ polls[p].pc = "done" /\ polls[p].ret = "list"
        /\ polls[p].max_count = <<1>>
        /\ polls[p].client \in DOMAIN polls[p].snap
        /\ Len(polls[p].snap[polls[p].client]) = 2
        /\ polls[p].notifications = <<polls[p].snap[polls[p].client][1]>>
        /\ polls[p].post[polls[p].client] = <<polls[p].snap[polls[p].client][2]>>

(* ============ session_manager/app.py: a session closed mid-flight ======= *)
\* C25: a handler whose session was closed after its membership test still
\* ends with a response of its own (404, 200 or the 500 of the except branch):
\* no step of it ends in an unhandled exception.
C25_RequestOutlivesSession ==
    [][\A h \in Handlers :
          (/\ hpc[h] \notin {"idle", "return"} /\ hpc'[h] = "return"
           /\ hsid[h] \notin DOMAIN sessions)
             => hres'[h].body # "unhandled KeyError"]_vars

\* C25 witness: the session was closed between the membership test and the
\* lookup of line 102, and the handler ended in an unhandled KeyError before
\* it had the session
C25_Witness ==
    \E h \in Handlers :
        /\ hpc[h] = "return" /\ hres[h] = [status |-> 500, body |-> "unhandled KeyError"]
        /\ hses[h] = 0
        /\ closedBy[hsid[h]] = "close"

\* what holds: once the handler has the session dict (line 102) it keeps it,
\* whether or not the table still names it
C25_HandlerKeepsSession ==
    \A h \in Handlers :
        hpc[h] \notin {"idle", "fetch", "return"}
            => /\ hses[h] \in DOMAIN heap
               /\ heap[hses[h]].id = hsid[h]

(* ================= session_manager/app.py: the idle sweep ============== *)
\* a step of the cleanup thread
SweepStep ==
    \/ cleanup_sessions_wake
    \/ cleanup_sessions_iter
    \/ cleanup_sessions_del
    \/ cleanup_sessions_notify

\* C26: the sweep never throws: the cleanup thread has not ended in an
\* exception, and it has a next step, in its pass or towards the next one.
C26_SweepNeverThrows ==
    /\ spc # "dead"
    /\ ENABLED SweepStep

\* C26 witness: a session was closed after the sweep listed it; the cleanup
\* thread has ended in KeyError with a session of its list, still in the
\* table, not examined
C26_Witness ==
    /\ spc = "dead"
    /\ closedBy[scur] = "close"
    /\ \E k \in Range(slist) : k \in DOMAIN sessions
    /\ ~ENABLED SweepStep

(* ============ session_manager/app.py: the in-flight records ============ *)
\* the request ids a handler can carry: the client's, or a fresh uuid4 (line 111)
AllRequestIds == RequestIds \cup {Uuid4(h) : h \in Handlers}

\* the request ids with an entry in the activeRequests of session dict s
ActiveIds(s) == DOMAIN heap[s].activeRequests

\* the handlers on session dict s, for request id r, whose request is at its
\* backend (line 124, after requests.post)
Awaiting(s, r) == {h \in Handlers : hses[h] = s /\ hrid[h] = r /\ hpc[h] = "await"}

\* C27: an entry for request id r is in a session's activeRequests while a
\* handler for r on that session awaits its dispatch, two handlers of one id
\* included, and an entry that is there belongs to a request id some handler
\* on that session has tracked and not yet removed.
C27_EntryWhileInFlight ==
    \A s \in DOMAIN heap : \A r \in AllRequestIds :
        /\ Awaiting(s, r) # {} => r \in ActiveIds(s)
        /\ r \in ActiveIds(s) => \E h \in InFlight(s) : hrid[h] = r

\* C27 witness: of two handlers with one request id on one session, one has
\* returned and the other still awaits its backend, with no entry for the id
C27_Witness ==
    \E s \in DOMAIN heap : \E g, h \in Handlers :
        /\ hses[g] = s /\ hses[h] = s /\ hrid[g] = hrid[h]
        /\ hpc[g] = "return" /\ hres[g].status = 200
        /\ hpc[h] = "await"
        /\ hrid[h] \notin ActiveIds(s)

\* C27 on sessions where no two overlapping requests shared an id: it holds
C27_EntryWhileInFlightDistinctIds ==
    \A s \in DOMAIN heap \ dup : \A r \in AllRequestIds :
        /\ Awaiting(s, r) # {} => r \in ActiveIds(s)
        /\ r \in ActiveIds(s) => \E h \in InFlight(s) : hrid[h] = r

C28_AppLastActivityMonotone ==
    [][\A s \in DOMAIN heap' :
          /\ fromisoformat(heap'[s].lastActivity) >= fromisoformat(heap'[s].created)
          /\ s \in DOMAIN heap =>
                fromisoformat(heap'[s].lastActivity) >= fromisoformat(heap[s].lastActivity)]_vars

\* a request, later than the creation, has moved lastActivity past created
C28_AppWitness ==
    \E h \in Handlers :
        /\ hpc[h] = "track"
        /\ fromisoformat(heap[hses[h]].lastActivity) > fromisoformat(heap[hses[h]].created)

(* ================= the identity of a session, both registries ========== *)
\* C29: after every step of the registry each key maps to a session whose own
\* id is that key, no two sessions of the table share an id, a session just
\* created has the client id it was created with, and a session that stays in
\* the table keeps its id and its client id.
C29_SessionIdentity ==
    [][/\ \A k \in DOMAIN mgr' : mgr'[k].id = k
       /\ \A j, k \in DOMAIN mgr' : mgr'[j].id = mgr'[k].id => j = k
       /\ regNext' # regNext =>
             /\ regOp'.ret \in DOMAIN mgr' \ DOMAIN mgr
             /\ mgr'[regOp'.ret].client_id = regOp'.arg[1]
       /\ \A k \in DOMAIN mgr \cap DOMAIN mgr' :
             /\ mgr'[k].id = mgr[k].id
             /\ mgr'[k].client_id = mgr[k].client_id]_vars

\* C29 witness: two sessions of two clients are in the table, and requests and
\* a metadata write have been through one of them
C29_Witness ==
    \E j, k \in DOMAIN mgr :
        /\ j # k /\ mgr[j].client_id # mgr[k].client_id
        /\ mgr[j].client_id # NoClientId /\ mgr[k].client_id # NoClientId
        /\ mgr[k].active_requests # EmptyDict
        /\ regOp.op = "set_metadata" /\ regOp.arg[1] = k

\* C29 in app.py: each key of `sessions` names a dict whose 'id' is the key,
\* two keys never name one dict, and a dict, in the table or held by a
\* handler after its session was closed, keeps its 'id' and its 'clientId'
C29_AppSessionIdentity ==
    [][/\ \A k \in DOMAIN sessions' : heap'[sessions'[k]].id = k
       /\ \A j, k \in DOMAIN sessions' : sessions'[j] = sessions'[k] => j = k
       /\ \A s \in DOMAIN heap :
             /\ s \in DOMAIN heap'
             /\ heap'[s].id = heap[s].id
             /\ heap'[s].clientId = heap[s].clientId]_vars

\* two sessions of two clients are in the table while a request is in flight
C29_AppWitness ==
    \E j, k \in DOMAIN sessions : \E h \in Handlers :
        /\ j # k
        /\ heap[sessions[j]].clientId # heap[sessions[k]].clientId
        /\ hpc[h] = "await" /\ hses[h] = sessions[k]

(* ============ session_manager/app.py: the order of a request =========== *)
\* C30: for each request, the step that hands it to the router has put its
\* in-flight record into the session; a notification is emitted only by a
\* handler whose dispatch has resolved before that step; and a handler that
\* awaits its backend has emitted none.
C30_EventOrder ==
    [][\A h \in Handlers :
          /\ Len(hposts'[h]) > Len(hposts[h]) =>
                /\ hpc[h] = "track" /\ hnotes[h] = <<>>
                /\ hrid[h] \in DOMAIN heap'[hses[h]].activeRequests
                /\ heap'[hses[h]].activeRequests[hrid[h]].request = h
          /\ Len(hnotes'[h]) > Len(hnotes[h]) =>
                /\ hout[h] # ""
                /\ hpc[h] \notin {"track", "await"}
                /\ hnotes[h] = <<>>
          /\ hpc'[h] = "await" => hnotes'[h] = <<>> /\ hout'[h] = ""]_vars

\* C30 witness: a request went to its backend, was answered, and its handler
\* has emitted its one notification, while another handler's request is still
\* at the backend with nothing emitted
C30_Witness ==
    \E g, h \in Handlers :
        /\ hpc[h] = "return" /\ hposts[h] # <<>> /\ hout[h] = "response"
        /\ Len(hnotes[h]) = 1 /\ hnotes[h][1].type = "request-completed"
        /\ hpc[g] = "await" /\ hposts[g] # <<>> /\ hnotes[g] = <<>>

(* ============ notifications.py: the queue across a reconnect =========== *)
\* a step in which polling thread p takes an item with q.get()
Drains(p) == Len(polls'[p].notifications) > Len(polls[p].notifications)

\* the queue that the local q of thread p names was dropped by
\* unregister_client, and the client has registered again since
Reconnected(p) ==
    /\ polls[p].at = "own" /\ polls[p].cut = "unregister_client"
    /\ polls[p].client \in DOMAIN notification_queues

\* C31: the queue a client gets at registration is empty, and once the client
\* has been unregistered and registered again, no drain obtains a notification
\* from the queue it had before the unregistration.
C31_QueueDiscarded ==
    [][/\ \A t \in Threads :
             (frames[t].pc = "r_queue" /\ frames'[t].pc = "r_client") =>
                 notification_queues'[frames[t].call.client] = <<>>
       /\ \A p \in Pollers : Drains(p) => ~Reconnected(p)]_vars

\* C31 witness: a client was unregistered and has registered again with an
\* empty queue, and a drain has returned a notification that was queued
\* before the unregistration
C31_Witness ==
    \E p \in Pollers :
        /\ polls[p].pc = "done" /\ polls[p].ret = "list"
        /\ polls[p].cut = "unregister_client" /\ polls[p].late >= 1
        /\ polls[p].client \in Range(clients)
        /\ notification_queues[polls[p].client] = <<>>
        /\ polls[p].notifications # <<>>
        /\ polls[p].notifications[Len(polls[p].notifications)]
              \in Range(polls[p].snap[polls[p].client])

\* C31 when the calls do not overlap: then it holds
C31_Witness_Sequential ==
    \E p \in Pollers :
        /\ polls[p].pc = "done" /\ polls[p].ret = "list" /\ polls[p].notifications = <<>>
        /\ polls[p].client \in Range(clients)
        /\ nextNote > 1
        /\ written[polls[p].client] = <<create_notification(ConnectedId, "connected")>>

(* ================ notifications.py: the maps and the lock ============== *)
\* a step in which polling thread p reads self.clients or
\* self.notification_queues, or reads or changes a queue that the dict holds
MapStep(p) ==
    /\ polls'[p].pc # polls[p].pc
    /\ \/ polls[p].pc \in {"idle", "p_fetch"}
       \/ polls[p].pc \in {"p_test", "p_get"} /\ polls[p].at = "dict"

\* the positions of a call of register_client, unregister_client or
\* send_notification between taking the lock and releasing it
LockedPcs == {"r_queue", "r_client", "r_send", "u_client", "u_queue", "s_check", "s_put",
              "s_write"}

\* C32: a thread inside register, unregister or send works on the maps with
\* the lock held, and a queue drain, a client count or a connectivity check
\* reads or changes the maps only while no other operation holds the lock,
\* so none of them sees the maps in the middle of an update.
C32_MapsUnderLock ==
    [][/\ \A t \in Threads :
             (frames[t].pc \in LockedPcs /\ frames'[t] # frames[t]) => lock = t
       /\ \A p \in Pollers : MapStep(p) => lock = 0]_vars

\* C32 witness: while register_client holds the lock between lines 28 and 31,
\* a connectivity check answers False for the client whose queue is already
\* in place
C32_Witness ==
    \E p \in Pollers : \E t \in Threads :
        /\ polls[p].pc = "done" /\ polls[p].ret = "False"
        /\ polls[p].client \in DOMAIN notification_queues
        /\ lock = t /\ frames[t].pc = "r_client"
        /\ frames[t].call.client = polls[p].client

\* C32, the client count: it is read as 0 while the first registration is
\* half done
C32_Witness_Count ==
    \E p \in Pollers : \E t \in Threads :
        /\ polls[p].pc = "done" /\ polls[p].ret = "int" /\ polls[p].count = 0
        /\ notification_queues # EmptyDict
        /\ lock = t /\ frames[t].pc = "r_client"

\* C32, the methods that take the lock: inside them the lock is held by the
\* thread that runs them
C32_LockedMethods ==
    \A t \in Threads : frames[t].pc \in LockedPcs => lock = t

(* ============== dispatcher.py and app.py: no second attempt ============ *)
\* C33: a call of dispatch makes at most one POST; when the POST timed out or
\* failed, or the backend refused, the call ends at once with the error that
\* says so, and no step of the call posts the request again.
C33_OneAttempt ==
    [][/\ Len(dposts') <= 1
       /\ dpc = "post" =>
             /\ dpc' = "done" /\ dposts' = dposts
             /\ dans'.error # "" =>
                   /\ dret' = "ValueError: Failed to dispatch request"
                   /\ dout'.cause = dans'.error
             /\ (dans'.error = "" /\ dans'.status_code # 200) =>
                   dret' = "ValueError: Server returned error"
       /\ dpc = "done" => dposts' = <<>> /\ dpc' = "idle"]_vars

\* C33 witness: the POST timed out; dispatch has raised with that one POST made
C33_Witness ==
    /\ dpc = "done" /\ dans.error = "Timeout"
    /\ Len(dposts) = 1 /\ dposts[1].json = dreq
    /\ dret = "ValueError: Failed to dispatch request"

\* C33 in app.py: a handler calls dispatch once (line 124): it has posted its
\* request at most once, nothing after dispatch resolved, and a handler whose
\* dispatch raised answers 500
C33_HandlerOneAttempt ==
    [][\A h \in Handlers :
          /\ Len(hposts'[h]) <= 1
          /\ Len(hposts'[h]) > Len(hposts[h]) => hpc[h] = "track" /\ hout[h] = ""
          /\ (hpc'[h] = "return" /\ hout'[h] \notin {"", "response"}) =>
                hres'[h].status = 500]_vars

\* a handler whose backend failed has answered 500 after one POST
C33_HandlerWitness ==
    \E h \in Handlers :
        /\ hpc[h] = "return" /\ hout[h] = "ValueError" /\ Len(hposts[h]) = 1
        /\ hres[h] = [status |-> 500, body |-> "Failed to process request"]

(* ================== dispatcher.py: routing by type alone =============== *)
\* a request that passes validation and whose type can be looked up
Routable(request) ==
    validate_message(request, "request") /\ request.type # UnhashableType

\* C34: two valid requests of the same type get the same backend id from the
\* routing step, whatever their id, payload, metadata and session, and are
\* posted to the same backend when the dispatcher has its address; and the
\* routing step leaves the address table as it was.
C34_RoutingByType ==
    [][/\ \A i, j \in DOMAIN rcalls' :
             (/\ Routable(rcalls'[i].request) /\ Routable(rcalls'[j].request)
              /\ rcalls'[i].request.type = rcalls'[j].request.type)
                => rcalls'[i].out.server_id = rcalls'[j].out.server_id
       /\ rcalls' # rcalls => disp_urls' = disp_urls]_vars

\* C34 witness: two database queries that differ in id, payload, metadata and
\* session have both been routed to backend 4
C34_Witness ==
    /\ Len(rcalls) = 2
    /\ rcalls[1].request.type = "database-query"
    /\ rcalls[2].request.type = "database-query"
    /\ rcalls[1].request.id # rcalls[2].request.id
    /\ rcalls[1].request.payload # rcalls[2].request.payload
    /\ "metadata" \in rcalls[1].request.keys /\ "metadata" \notin rcalls[2].request.keys
    /\ rcalls[1].session # rcalls[2].session
    /\ rcalls[1].out = [raise |-> "", server_id |-> "4", url |-> "http://localhost:5004"]
    /\ rcalls[2].out = rcalls[1].out

\* C34, the address table of the dispatcher: only RequestDispatcher.__init__
\* writes it; dispatch and check_health leave it as it is
C34_AddressTableKept ==
    [][disp_urls' # disp_urls =>
          /\ dpc = "idle" /\ health.pc = "idle"
          /\ UNCHANGED <<dpc, dreq, dposts, dret, dans, dout, health>>]_vars

\* C34, the address table of app.py: no handler, stream or sweep writes it
C34_AppAddressTableKept == [][server_urls' = server_urls]_vars

(* ================= no session comes from anywhere else ================= *)
\* C35: a session id enters the `sessions` table only through create_session:
\* it is the fresh id of that call, answered 201, never one that was in the
\* table before; no step of a request handler, a lookup, a close or the sweep
\* adds an id.
C35_NoFabrication ==
    [][\A k \in DOMAIN sessions' \ DOMAIN sessions :
          /\ k = nextSid /\ nextSid' = nextSid + 1
          /\ closedBy[k] = "none"
          /\ createRes' = [status |-> 201, sessionId |-> k]
          /\ \A h \in Handlers : hpc'[h] = hpc[h]]_vars

\* C35 witness: a request whose session was closed while it was at its
\* backend has completed with 200 and removed its record, and the session id
\* is still out of the table
C35_Witness ==
    \E h \in Handlers :
        /\ hpc[h] = "return" /\ hres[h].status = 200 /\ hposts[h] # <<>>
        /\ closedBy[hsid[h]] = "close"
        /\ hsid[h] \notin DOMAIN sessions
        /\ hrid[h] \notin DOMAIN heap[hses[h]].activeRequests

\* C35 in session.py: an id enters SessionManager.sessions only through
\* create_session, as its fresh id
C35_RegistryNoFabrication ==
    [][\A k \in DOMAIN mgr' \ DOMAIN mgr :
          /\ k = regNext /\ regNext' = regNext + 1
          /\ regOp'.op = "create_session" /\ regOp'.ret = k]_vars

\* an unknown id was looked up, added to and removed from, and the table is
\* still empty
C35_RegistryWitness ==
    /\ regNext > 1 /\ mgr = EmptyDict
    /\ regOp.op = "get_session" /\ regOp.ret = None.id

(* ============= notifications.py: channels and queues together ========== *)
\* a thread is between the two writes of register_client (lines 28 and 31) or
\* between the two deletes of unregister_client (lines 51 and 54)
MidUpdate == \E t \in Threads : frames[t].pc \in {"r_client", "u_queue"}

\* C36: the client ids with a channel are the client ids with a queue, in
\* every state but those inside the locked section of a register or an
\* unregister between its two statements: whatever the calls, their
\* interleaving and the writes that failed.
C36_ChannelsAndQueues ==
    ~MidUpdate => Range(clients) = DOMAIN notification_queues

\* C36 witness: the first write of a register_client failed and the call
\* raised; the client has both a channel and a queue, another client neither
C36_Witness ==
    \E t \in Threads :
        /\ frames[t].pc = "done" /\ frames[t].call.op = "register_client"
        /\ frames[t].ret = "raise"
        /\ lock = 0
        /\ frames[t].call.client \in Range(clients)
        /\ Range(clients) = DOMAIN notification_queues
        /\ Len(clients) < nseen

\* C36, a failed write of send_notification: the thread waits for the lock it
\* holds, and the client still has both its channel and its queue
C36_Witness_FailedSend ==
    \E t \in Threads :
        /\ frames[t].pc = "u_acquire" /\ frames[t].caller = "send_notification"
        /\ lock = t
        /\ frames[t].call.client \in Range(clients)
        /\ frames[t].call.client \in DOMAIN notification_queues

(* ============== notifications.py: what the queue holds ================= *)
\* thread t goes from position `from` to position `to`
Moves(t, from, to) == frames[t].pc = from /\ frames'[t].pc = to

\* the queue of client c grows by the notification n at its end
Queued(c, n) ==
    /\ c \in DOMAIN notification_queues
    /\ notification_queues' =
           [notification_queues EXCEPT ![c] = Append(@, n)]

\* a polling thread takes the oldest notification of the queue that the dict
\* holds for client c
Drained(c) ==
    \E p \in Pollers :
        /\ polls[p].pc = "p_get" /\ polls[p].at = "dict" /\ polls[p].client = c
        /\ polls'[p].notifications =
               Append(polls[p].notifications, Head(notification_queues[c]))
        /\ notification_queues'[c] = Tail(notification_queues[c])

\* C37: send_notification puts the notification at the end of the client's
\* queue first, with nothing written yet, and then writes it, which leaves
\* the queue as it is; and the queue of a client that stays registered changes
\* only by such a put (one longer) and by a drain (one shorter, from the
\* front): its length is the deliveries attempted less the notifications
\* drained.
C37_QueueAccounting ==
    [][/\ \A t \in Threads :
             LET c == frames[t].call.client
                 n == frames[t].call.note
             IN /\ Moves(t, "s_put", "s_write") =>
                      /\ Queued(c, n) /\ written' = written
                      /\ n \notin Range(written[c])
                /\ Moves(t, "s_write", "done") =>
                      /\ written'[c] = Append(written[c], n)
                      /\ notification_queues' = notification_queues
       /\ \A c \in DOMAIN notification_queues \cap DOMAIN notification_queues' :
             notification_queues'[c] # notification_queues[c] =>
                \/ \E t \in Threads :
                       /\ Moves(t, "s_put", "s_write") /\ frames[t].call.client = c
                       /\ Len(notification_queues'[c]) = Len(notification_queues[c]) + 1
                \/ /\ Drained(c)
                   /\ Len(notification_queues'[c]) = Len(notification_queues[c]) - 1
                \/ \E t \in Threads :
                       /\ Moves(t, "r_queue", "r_client") /\ frames[t].call.client = c
                       /\ notification_queues'[c] = <<>>]_vars

\* C37 witness: two notifications were sent to a registered client and
\* written to its channel; a drain has returned the first, which is on the
\* channel, and the second is still queued
C37_Witness ==
    \E p \in Pollers :
        LET c == polls[p].client
        IN /\ polls[p].pc = "done" /\ polls[p].ret = "list" /\ polls[p].cut = ""
           /\ c \in Range(clients) /\ c \in DOMAIN notification_queues
           /\ Len(written[c]) = 3
           /\ polls[p].notifications = <<written[c][2]>>
           /\ notification_queues[c] = <<written[c][3]>>

\* C37 for broadcast_notification: the notification is put on each client's
\* queue before it is written to that client, and the write leaves the queues
\* as they are
C37_BroadcastQueuesFirst ==
    [][\A t \in Threads :
          LET c == Head(frames[t].list)
              n == frames[t].call.note
          IN /\ Moves(t, "b_next", "b_write") =>
                   /\ c \in DOMAIN notification_queues => Queued(c, n)
                   /\ written' = written
             /\ (Moves(t, "b_write", "b_next") /\ frames'[t].sent_count > frames[t].sent_count)
                   => /\ written'[c] = Append(written[c], n)
                      /\ notification_queues' = notification_queues
                      /\ c \in DOMAIN notification_queues =>
                            n \in Range(notification_queues[c])]_vars

\* a broadcast has been written to a client and is on its queue as well
C37_BroadcastWitness ==
    \E t \in Threads : \E c \in Range(clients) :
        /\ frames[t].call.op = "broadcast_notification" /\ c \in frames[t].wrote
        /\ frames[t].call.note \in Range(written[c])
        /\ frames[t].call.note \in Range(notification_queues[c])

(* ============ session_manager/app.py: overlapping event streams ======== *)
\* the streams of client_id whose generator has gone on past its first yield
PastConnected(client_id) ==
    {st \in AllStreams : stpc[st] = "streaming" /\ stclient[st] = client_id}

\* C38: while a stream of a client id is open and past its `connected` event,
\* the client id is in sse_clients, so that send_notification for it returns
\* True: also when another stream of the same id has been closed meanwhile.
C38_OpenStreamIsRegistered ==
    \A c \in ClientIds :
        PastConnected(c) # {} => c \in sse_clients /\ send_notification(c)

\* C38 witness: two streams of one client id were open and past `connected`;
\* one has been closed, the other is still open and has yielded a ping since,
\* and the client id is not in sse_clients
C38_Witness ==
    \E st, su \in AllStreams : \E c \in ClientIds :
        /\ st # su
        /\ stpc[st] = "streaming" /\ stclient[st] = c /\ stout[st] = <<"connected", "ping">>
        /\ stpc[su] = "idle" /\ stclient[su] = c
        /\ ~send_notification(c)

\* C38 with a single stream at a time: then it holds
C38_SingleStream ==
    \A st \in Streams : stpc[st] = "streaming" => send_notification(stclient[st])

(* ======== session_manager/app.py: the sweep and requests in flight ====== *)
\* the session dict the sweep examines next, when its id is still in the table
Examined == sessions[Head(slist)]

\* a step of the sweep that examines a session of the table (lines 263-267)
Examines ==
    /\ spc = "iter" /\ slist # <<>> /\ slist' = Tail(slist)
    /\ Head(slist) \in DOMAIN sessions

\* the handlers whose session the sweep closed while they held its dict
Swept == {h \in Handlers : hses[h] # 0 /\ closedBy[hsid[h]] = "sweep"}

\* C39: the sweep's decision to close a session depends on its lastActivity and
\* the threshold alone, a non-empty activeRequests does not spare it; and a
\* handler whose session the sweep closed still removes its record from the
\* detached dict and ends with a response of its own.
C39_SweepIgnoresInFlight ==
    [][/\ Examines =>
            /\ (spc' = "del") <=>
                   (snow - fromisoformat(heap[Examined].lastActivity) > IdleThreshold)
            /\ spc' \in {"del", "iter"}
       /\ (spc = "del" /\ spc' = "notify") => scur \notin DOMAIN sessions'
       /\ \A h \in Swept :
            /\ (hpc[h] \in {"ok_del", "exc_del"} /\ hpc'[h] # hpc[h])
                  => /\ hrid[h] \in ActiveIds(hses[h])
                     /\ ActiveIds(hses[h])' = ActiveIds(hses[h]) \ {hrid[h]}
                     /\ hpc'[h] = IF hpc[h] = "ok_del" THEN "ok_notify" ELSE "exc_notify"
            /\ (hpc[h] # "return" /\ hpc'[h] = "return")
                  => /\ hres'[h].body # "unhandled KeyError"
                     /\ hrid[h] \notin ActiveIds(hses[h])]_vars

\* C39 witness: the sweep has just closed a session whose activeRequests holds
\* the record of a request that is at its backend
C39_Witness ==
    \E h \in Handlers :
        /\ spc = "notify" /\ scur = hsid[h] /\ sses = hses[h]
        /\ scur \notin DOMAIN sessions
        /\ hpc[h] = "await" /\ hrid[h] \in ActiveIds(hses[h])

\* C39 witness: a handler whose session the sweep closed has answered 200 and
\* left no record in the detached dict
C39_Witness_Completes ==
    \E h \in Swept :
        /\ hpc[h] = "return" /\ hres[h].status = 200
        /\ hsid[h] \notin DOMAIN sessions
        /\ ActiveIds(hses[h]) = {}

(* ============ client/sse_client.py: one listener at a time ============= *)
\* the listener threads in the loop over the lines of their stream
Reading == {t \in Listeners : lpc[t] = "read"}

\* disconnect() was the last call and it has returned
Disconnected == upc = "idle" /\ ufrom = "disconnect"

\* C40: at most one listener thread is active and the listener stops for good
\* on disconnect: a thread that notifies a message is the only thread reading
\* a stream, after disconnect() `running` and `connected` are false, and no
\* thread starts a connection attempt once disconnect() has returned.
C40_OneListener ==
    [][/\ \A t \in Listeners : lgot'[t] > lgot[t] => Reading = {t}
       /\ Disconnected' => ~running' /\ ~connected'
       /\ \A t \in Listeners :
            (Disconnected /\ lpc[t] # "get" /\ lpc'[t] = "get") => FALSE]_vars

\* C40 witness: connect() was called while the first listener was alive; both
\* threads are in their loop over the lines, `running` is true, and each has
\* notified messages
C40_Witness ==
    \E t, u \in Listeners :
        /\ t # u /\ thread = u
        /\ Reading = {t, u}
        /\ running /\ upc = "idle" /\ ufrom = "connect"
        /\ lgot[t] = MaxLines /\ lgot[u] = 1

\* C40 witness: disconnect() has returned and a listener whose session.get
\* answered afterwards has set `connected`
C40_Witness_LateConnected ==
    /\ Disconnected
    /\ ~running /\ connected
    /\ \E t \in Listeners : lpc[t] = "read"

\* C40 witness: disconnect() has returned and a listener that had passed the
\* test of line 99 starts its reconnection attempt
C40_Witness_LateReconnect ==
    /\ Disconnected
    /\ ~running
    /\ \E t \in Listeners : lpc[t] = "get" /\ lgot[t] > 0

\* what holds: a disconnect() that found `running` true returns with both flags
\* false, `running` stays false until the next connect(), and no message is
\* notified while it is false
C40_StoppedAtReturn ==
    [][/\ (upc = "end" /\ upc' # "end") => ~running' /\ ~connected'
       /\ Disconnected' => ~running'
       /\ \A t \in Listeners : lgot'[t] > lgot[t] => running]_vars

\* what holds: a listener that finds `running` false at the end of _listen ends
\* and is never started again
C40_EndedStaysEnded ==
    [][\A t \in Listeners : lpc[t] = "dead" => lpc'[t] = "dead"]_vars

====
